---- MODULE Spec2Model ----
(***************************************************************************)
(* Model of the Scalene profile parser (utils/parser.ts): the Report,      *)
(* File, Line and Function Normalizers, the leak score and the leak        *)
(* classifier; of the runner of the external profiler (ScaleneRunner.ts):  *)
(* run(), the handlers of the child's events and stop(); and of the View   *)
(* Last Profile command (commands/index.ts).                               *)
(*                                                                         *)
(* Specifications.  Spec and SpecAny normalize one raw report and classify *)
(* its lines; SpecOwned calls the normalizer again and writes into the     *)
(* containers of the two reports (alias names the containers both reports  *)
(* refer to); SpecRunner interleaves calls of run() with the events of     *)
(* their children, stop() and the cleanup of Profile Selected Code;        *)
(* SpecView is one run with View Last Profile; SpecFormat spells numbers   *)
(* with formatMemoryMb and formatPercent; SpecInstall is one call of       *)
(* installScalene (utils/python.ts) with the events of its installers;     *)
(* SpecTabs renders the Line Profile and Potential Leaks tabs of the       *)
(* viewer (views/ProfileViewerPanel.ts) from a normalized report.          *)
(*                                                                         *)
(* Numbers.  Memory sizes (MB), CPU percentages and leak weights are       *)
(* integers.  n_usage_fraction is counted in tenths, so the source's 0.3   *)
(* is UsageFractionLimit = 3.  The quotient computed for growth_rate is    *)
(* kept exact as a pair [num, den]; den = 0 stands for NaN or +-Infinity.  *)
(*                                                                         *)
(* JavaScript values.  A value that may be absent is a record tagged by    *)
(* its type, so that undefined, null, numbers, strings, arrays and objects *)
(* can be told apart and compared.                                         *)
(***************************************************************************)
EXTENDS Integers, Sequences, FiniteSets, TLC

VARIABLES raw, out, pc, verdict, alias,
          process, lastProfilePath, statusBar, runs, view, viewer, fmt, install, tabs

vars == <<raw, out, pc, verdict, alias,
          process, lastProfilePath, statusBar, runs, view, viewer, fmt, install, tabs>>

(***************************************************************************)
(* JavaScript values and the operators the parser applies to them          *)
(***************************************************************************)
Undefined == [t |-> "undefined"]

Null == [t |-> "null"]

Num(n) == [t |-> "number", n |-> n]

Str(s) == [t |-> "string", s |-> s]

Arr(items) == [t |-> "array", items |-> items]

Obj(props) == [t |-> "object", props |-> props]

\* The completion of an expression that raised a TypeError.
TypeError == [t |-> "TypeError"]

IsThrow(x) == x.t = "TypeError"

Nullish(x) == x.t \in {"undefined", "null"}

\* ToBoolean: undefined, null, 0 and "" are falsy; arrays and objects are truthy.
Truthy(x) ==
    CASE x.t = "undefined" -> FALSE
      [] x.t = "null" -> FALSE
      [] x.t = "number" -> x.n # 0
      [] x.t = "string" -> x.s # ""
      [] OTHER -> TRUE

\* a || b
Or(a, b) == IF Truthy(a) THEN a ELSE b

\* x > c and x < c for an integer c: ToNumber(null) is 0, ToNumber(undefined)
\* is NaN, and every comparison with NaN is false.
Gt(x, c) ==
    CASE x.t = "number" -> x.n > c
      [] x.t = "null" -> 0 > c
      [] OTHER -> FALSE

Lt(x, c) ==
    CASE x.t = "number" -> x.n < c
      [] x.t = "null" -> 0 < c
      [] OTHER -> FALSE

\* x[key]: raises on undefined and null, reads an own property of an object,
\* and is undefined on a primitive that has no such property.
Member(x, key) ==
    IF Nullish(x) THEN TypeError
    ELSE IF x.t = "object" /\ key \in DOMAIN x.props THEN x.props[key]
    ELSE Undefined

\* x.length
Length(x) ==
    IF Nullish(x) THEN TypeError
    ELSE IF x.t = "array" THEN Num(Len(x.items))
    ELSE IF x.t = "string" THEN Num(Len(x.s))
    ELSE Undefined

\* x.length where the source has x?.length.
LengthUnguarded(x) == Length(x)

\* x?.length
OptLength(x) == IF Nullish(x) THEN Undefined ELSE Length(x)

\* x[0]
First(x) ==
    IF Nullish(x) THEN TypeError
    ELSE IF x.t = "array" /\ Len(x.items) > 0 THEN x.items[1]
    ELSE Undefined

\* x?.[0]
OptFirst(x) == IF Nullish(x) THEN Undefined ELSE First(x)

\* String(n) of a non-negative integer: its decimal digits.
Digit(d) ==
    CASE d = 0 -> "0" [] d = 1 -> "1" [] d = 2 -> "2" [] d = 3 -> "3"
      [] d = 4 -> "4" [] d = 5 -> "5" [] d = 6 -> "6" [] d = 7 -> "7"
      [] d = 8 -> "8" [] d = 9 -> "9"

RECURSIVE String(_)
String(n) == IF n < 10 THEN Digit(n) ELSE String(n \div 10) \o Digit(n % 10)

(***************************************************************************)
(* The runner as constructed and the commands before their first use       *)
(***************************************************************************)
runnerVars == <<process, lastProfilePath, statusBar, runs, view, viewer>>

MaxRuns == 2

\* The calls of run(), numbered in the order they are made.
Runs == 1..MaxRuns

\* process: ChildProcess | null, as the number of the call that spawned it.
NoProcess == 0

\* lastProfilePath: string | null
NoPath == "none"

\* A call of run() that has not been made.  temp is the temporary selection
\* file of a call made by Profile Selected Code, region that command's promise.
NotCalled ==
    [pc |-> "unused", child |-> "none", promise |-> "none", killed |-> FALSE,
     viewRequested |-> FALSE, notified |-> FALSE, temp |-> "none", region |-> "none"]

\* View Last Profile has not run.
NoView == [path |-> NoPath, exists |-> FALSE, kind |-> "none", outcome |-> "none"]

toolVars == <<fmt, install, tabs>>

\* No number has been handed to a formatter.
NoFormat == [value |-> Undefined, memory |-> "", percent |-> ""]

\* An installer process that was not spawned.
NoProc == [state |-> "none", code |-> Undefined, pythonPath |-> ""]

\* installScalene has not been called.
NoInstall ==
    [pc |-> "idle", pythonPath |-> "", hasUv |-> FALSE, hasPyproject |-> FALSE, packageManager |-> "none",
     result |-> "pending", uv |-> NoProc, pips |-> <<>>]

\* The viewer has rendered no tab.
NoTabs == [lineProfile |-> {}, leakProfile |-> {}]

ToolsIdle == fmt = NoFormat /\ install = NoInstall /\ tabs = NoTabs

RunnerIdle ==
    /\ process = NoProcess
    /\ lastProfilePath = NoPath
    /\ statusBar = "idle"
    /\ runs = [c \in Runs |-> NotCalled]
    /\ view = NoView
    /\ viewer = Undefined

(***************************************************************************)
(* Leak score and leak classifier                                          *)
(***************************************************************************)
GrowthWeight == 10

MallocWeight == 5

UsageFractionLimit == 3

LowUsagePenalty == 20

DefaultThreshold == 50

\* calculateLeakScore with the allocation term added whether or not the line grows.
calculateLeakScoreAnyMalloc(line, leaks) ==
    LET key == String(line.lineno)
        growing == Truthy(line.n_growth_mb) /\ Gt(line.n_growth_mb, 0)
        s1 == IF Truthy(leaks) /\ Truthy(Member(leaks, key))
              THEN Member(leaks, key).n ELSE 0
        s2 == IF growing THEN s1 + line.n_growth_mb.n * GrowthWeight ELSE s1
        s3 == IF Truthy(line.n_malloc_mb) /\ Gt(line.n_malloc_mb, 0)
              THEN s2 + line.n_malloc_mb.n * MallocWeight ELSE s2
        s4 == IF line.n_usage_fraction # Undefined
                 /\ Lt(line.n_usage_fraction, UsageFractionLimit) /\ growing
              THEN s3 + LowUsagePenalty ELSE s3
    IN  s4

\* calculateLeakScore with the growth term subtracted.
calculateLeakScoreMinusGrowth(line, leaks) ==
    LET key == String(line.lineno)
        growing == Truthy(line.n_growth_mb) /\ Gt(line.n_growth_mb, 0)
        s1 == IF Truthy(leaks) /\ Truthy(Member(leaks, key))
              THEN Member(leaks, key).n ELSE 0
        s2 == IF growing THEN s1 - line.n_growth_mb.n * GrowthWeight ELSE s1
        s3 == IF Truthy(line.n_malloc_mb) /\ Gt(line.n_malloc_mb, 0) /\ growing
              THEN s2 + line.n_malloc_mb.n * MallocWeight ELSE s2
        s4 == IF line.n_usage_fraction # Undefined
                 /\ Lt(line.n_usage_fraction, UsageFractionLimit) /\ growing
              THEN s3 + LowUsagePenalty ELSE s3
    IN  s4

\* calculateLeakScore: the four additions to score, in source order.
calculateLeakScore(line, leaks) ==
    LET key == String(line.lineno)
        growing == Truthy(line.n_growth_mb) /\ Gt(line.n_growth_mb, 0)
        s1 == IF Truthy(leaks) /\ Truthy(Member(leaks, key))
              THEN Member(leaks, key).n ELSE 0
        s2 == IF growing THEN s1 + line.n_growth_mb.n * GrowthWeight ELSE s1
        s3 == IF Truthy(line.n_malloc_mb) /\ Gt(line.n_malloc_mb, 0) /\ growing
              THEN s2 + line.n_malloc_mb.n * MallocWeight ELSE s2
        s4 == IF line.n_usage_fraction # Undefined
                 /\ Lt(line.n_usage_fraction, UsageFractionLimit) /\ growing
              THEN s3 + LowUsagePenalty ELSE s3
    IN  s4

\* isLikelyLeak with >= in place of >.
isLikelyLeakAtThreshold(line, threshold) ==
    LET th == IF threshold = Undefined THEN Num(DefaultThreshold) ELSE threshold
    IN  Or(line.leak_score, Num(0)).n >= th.n

\* isLikelyLeak(line, threshold): an undefined threshold takes the default.
isLikelyLeak(line, threshold) ==
    LET th == IF threshold = Undefined THEN Num(DefaultThreshold) ELSE threshold
    IN  Or(line.leak_score, Num(0)).n > th.n

(***************************************************************************)
(* Line and Function Normalizers                                           *)
(***************************************************************************)
\* parseScaleneLine with `|| 0` on the average and the GPU metrics.
parseScaleneLineZeroed(line, leaks) ==
    [lineno |-> line.lineno,
     code |-> line.line,
     n_cpu_percent_python |-> line.n_cpu_percent_python,
     n_cpu_percent_c |-> line.n_cpu_percent_c,
     n_sys_percent |-> line.n_sys_percent,
     n_core_utilization |-> line.n_core_utilization,
     cpu_samples_count |-> Or(OptLength(line.cpu_samples_list), Num(0)),
     n_malloc_mb |-> line.n_malloc_mb,
     n_peak_mb |-> line.n_peak_mb,
     n_avg_mb |-> Or(line.n_avg_mb, Num(0)),
     n_growth_mb |-> line.n_growth_mb,
     n_python_fraction |-> line.n_python_fraction,
     n_usage_fraction |-> line.n_usage_fraction,
     n_copy_mb_s |-> line.n_copy_mb_s,
     n_mallocs |-> line.n_mallocs,
     memory_samples_count |-> Or(OptLength(line.memory_samples), Num(0)),
     n_gpu_percent |-> Or(line.n_gpu_percent, Num(0)),
     n_gpu_peak_memory_mb |-> Or(line.n_gpu_peak_memory_mb, Num(0)),
     n_gpu_avg_memory_mb |-> Or(line.n_gpu_avg_memory_mb, Num(0)),
     leak_score |-> Num(calculateLeakScore(line, leaks))]

\* parseScaleneLine: the ScaleneLineData object literal, field by field.
parseScaleneLine(line, leaks) ==
    [lineno |-> line.lineno,
     code |-> line.line,
     n_cpu_percent_python |-> line.n_cpu_percent_python,
     n_cpu_percent_c |-> line.n_cpu_percent_c,
     n_sys_percent |-> line.n_sys_percent,
     n_core_utilization |-> line.n_core_utilization,
     cpu_samples_count |-> Or(OptLength(line.cpu_samples_list), Num(0)),
     n_malloc_mb |-> line.n_malloc_mb,
     n_peak_mb |-> line.n_peak_mb,
     n_avg_mb |-> line.n_avg_mb,
     n_growth_mb |-> line.n_growth_mb,
     n_python_fraction |-> line.n_python_fraction,
     n_usage_fraction |-> line.n_usage_fraction,
     n_copy_mb_s |-> line.n_copy_mb_s,
     n_mallocs |-> line.n_mallocs,
     memory_samples_count |-> Or(OptLength(line.memory_samples), Num(0)),
     n_gpu_percent |-> line.n_gpu_percent,
     n_gpu_peak_memory_mb |-> line.n_gpu_peak_memory_mb,
     n_gpu_avg_memory_mb |-> line.n_gpu_avg_memory_mb,
     leak_score |-> Num(calculateLeakScore(line, leaks))]

\* parseScaleneLine raises when one of its property reads raises.
parseScaleneLineThrows(line, leaks) ==
    \/ Truthy(leaks) /\ IsThrow(Member(leaks, String(line.lineno)))
    \/ IsThrow(OptLength(line.cpu_samples_list))
    \/ IsThrow(OptLength(line.memory_samples))

\* parseScaleneFunction with each absent memory metric stored as 0.
parseScaleneFunctionZeroed(fn) ==
    IF ~Truthy(fn.name) \/ ~Truthy(fn.lineno) THEN Null
    ELSE [name |-> fn.name,
          lineno |-> fn.lineno,
          n_cpu_percent_python |-> fn.n_cpu_percent_python,
          n_cpu_percent_c |-> fn.n_cpu_percent_c,
          n_sys_percent |-> fn.n_sys_percent,
          n_malloc_mb |-> Or(fn.n_malloc_mb, Num(0)),
          n_peak_mb |-> Or(fn.n_peak_mb, Num(0)),
          n_growth_mb |-> Or(fn.n_growth_mb, Num(0)),
          n_copy_mb_s |-> fn.n_copy_mb_s]

\* parseScaleneFunction: null for a falsy name or lineno, else the copy.
parseScaleneFunction(fn) ==
    IF ~Truthy(fn.name) \/ ~Truthy(fn.lineno) THEN Null
    ELSE [name |-> fn.name,
          lineno |-> fn.lineno,
          n_cpu_percent_python |-> fn.n_cpu_percent_python,
          n_cpu_percent_c |-> fn.n_cpu_percent_c,
          n_sys_percent |-> fn.n_sys_percent,
          n_malloc_mb |-> fn.n_malloc_mb,
          n_peak_mb |-> fn.n_peak_mb,
          n_growth_mb |-> fn.n_growth_mb,
          n_copy_mb_s |-> fn.n_copy_mb_s]

(***************************************************************************)
(* File Normalizer                                                         *)
(***************************************************************************)
EmptyProps == [k \in {} |-> Undefined]

\* The insertion skipped when the line number is already in the lookup.
setLineKeepFirst(lines, line, leaks) ==
    IF line.lineno \in DOMAIN lines THEN lines
    ELSE [k \in DOMAIN lines \cup {line.lineno} |->
            IF k = line.lineno THEN parseScaleneLine(line, leaks) ELSE lines[k]]

\* lines[line.lineno] = parseScaleneLine(line, raw.leaks)
setLine(lines, line, leaks) ==
    [k \in DOMAIN lines \cup {line.lineno} |->
        IF k = line.lineno THEN parseScaleneLine(line, leaks) ELSE lines[k]]

\* for (const line of raw.lines): the lookup after the first n raw lines.
RECURSIVE linesAfter(_, _, _)
linesAfter(rawLines, leaks, n) ==
    IF n = 0 THEN EmptyProps
    ELSE setLine(linesAfter(rawLines, leaks, n - 1), rawLines[n], leaks)

\* raw.functions.map(parseScaleneFunction)
RECURSIVE mapFunctions(_)
mapFunctions(fns) ==
    IF fns = <<>> THEN <<>>
    ELSE <<parseScaleneFunction(Head(fns))>> \o mapFunctions(Tail(fns))

\* .filter(f => f !== null)
NotNull(f) == f # Null

\* parseScaleneFile with a fresh empty leaks map whatever the raw file has.
parseScaleneFileNoLeaks(file) ==
    [lines |-> linesAfter(file.lines, file.leaks, Len(file.lines)),
     functions |-> SelectSeq(mapFunctions(file.functions), NotNull),
     leaks |-> Obj(EmptyProps)]

parseScaleneFile(file) ==
    [lines |-> linesAfter(file.lines, file.leaks, Len(file.lines)),
     functions |-> SelectSeq(mapFunctions(file.functions), NotNull),
     leaks |-> Or(file.leaks, Obj(EmptyProps))]

parseScaleneFileThrows(file) ==
    \E i \in 1..Len(file.lines) : parseScaleneLineThrows(file.lines[i], file.leaks)

(***************************************************************************)
(* Report Normalizer                                                       *)
(***************************************************************************)
\* The running aggregates before the first file.
NoAggregates ==
    [maxMemoryMb |-> 0, totalMemoryGrowthMb |-> 0, totalCpuPython |-> 0,
     totalCpuC |-> 0, totalSys |-> 0, files |-> EmptyProps]

\* foldLine with the peak assigned without the comparison against the maximum.
foldLineLastPeak(agg, lineData) ==
    [agg EXCEPT
        !.maxMemoryMb =
            IF Truthy(lineData.n_peak_mb) THEN lineData.n_peak_mb.n ELSE @,
        !.totalMemoryGrowthMb =
            IF Truthy(lineData.n_growth_mb) THEN @ + lineData.n_growth_mb.n ELSE @,
        !.totalCpuPython =
            IF Truthy(lineData.n_cpu_percent_python)
            THEN @ + lineData.n_cpu_percent_python.n ELSE @,
        !.totalCpuC =
            IF Truthy(lineData.n_cpu_percent_c)
            THEN @ + lineData.n_cpu_percent_c.n ELSE @,
        !.totalSys =
            IF Truthy(lineData.n_sys_percent) THEN @ + lineData.n_sys_percent.n ELSE @]

\* foldLine with only positive growth added to the total.
foldLinePositiveGrowth(agg, lineData) ==
    [agg EXCEPT
        !.maxMemoryMb =
            IF Truthy(lineData.n_peak_mb) /\ Gt(lineData.n_peak_mb, @)
            THEN lineData.n_peak_mb.n ELSE @,
        !.totalMemoryGrowthMb =
            IF Truthy(lineData.n_growth_mb) /\ Gt(lineData.n_growth_mb, 0)
            THEN @ + lineData.n_growth_mb.n ELSE @,
        !.totalCpuPython =
            IF Truthy(lineData.n_cpu_percent_python)
            THEN @ + lineData.n_cpu_percent_python.n ELSE @,
        !.totalCpuC =
            IF Truthy(lineData.n_cpu_percent_c)
            THEN @ + lineData.n_cpu_percent_c.n ELSE @,
        !.totalSys =
            IF Truthy(lineData.n_sys_percent) THEN @ + lineData.n_sys_percent.n ELSE @]

\* The body of the inner loop: one normalized line folded into the aggregates.
foldLine(agg, lineData) ==
    [agg EXCEPT
        !.maxMemoryMb =
            IF Truthy(lineData.n_peak_mb) /\ Gt(lineData.n_peak_mb, @)
            THEN lineData.n_peak_mb.n ELSE @,
        !.totalMemoryGrowthMb =
            IF Truthy(lineData.n_growth_mb) THEN @ + lineData.n_growth_mb.n ELSE @,
        !.totalCpuPython =
            IF Truthy(lineData.n_cpu_percent_python)
            THEN @ + lineData.n_cpu_percent_python.n ELSE @,
        !.totalCpuC =
            IF Truthy(lineData.n_cpu_percent_c)
            THEN @ + lineData.n_cpu_percent_c.n ELSE @,
        !.totalSys =
            IF Truthy(lineData.n_sys_percent) THEN @ + lineData.n_sys_percent.n ELSE @]

Min(S) == CHOOSE m \in S : \A k \in S : m <= k

\* for (const lineData of Object.values(lines)): integer keys, ascending.
RECURSIVE foldLines(_, _, _)
foldLines(agg, lines, keys) ==
    IF keys = {} THEN agg
    ELSE foldLines(foldLine(agg, lines[Min(keys)]), lines, keys \ {Min(keys)})

\* The output map rebuilt for each entry, so that only the last one stays.
storeFileAlone(files, filePath, normalizedFile) ==
    [p \in {filePath} |-> normalizedFile]

\* files[filePath] = normalizedFile
storeFile(files, filePath, normalizedFile) ==
    [p \in DOMAIN files \cup {filePath} |->
        IF p = filePath THEN normalizedFile ELSE files[p]]

\* foldFile with the sums restarted for each file.
foldFilePerFileTotals(agg, entry) ==
    LET normalizedFile == parseScaleneFile(entry.data)
        stored == [NoAggregates EXCEPT
                     !.maxMemoryMb = agg.maxMemoryMb,
                     !.files = storeFile(agg.files, entry.path, normalizedFile)]
    IN  foldLines(stored, normalizedFile.lines, DOMAIN normalizedFile.lines)

\* The body of the outer loop, for one [filePath, fileData] entry.
foldFile(agg, entry) ==
    LET normalizedFile == parseScaleneFile(entry.data)
        stored == [agg EXCEPT !.files = storeFile(@, entry.path, normalizedFile)]
    IN  foldLines(stored, normalizedFile.lines, DOMAIN normalizedFile.lines)

\* for (... of Object.entries(raw.files)): the aggregates after n entries.
RECURSIVE aggregatesAfter(_, _)
aggregatesAfter(entries, n) ==
    IF n = 0 THEN NoAggregates
    ELSE foldFile(aggregatesAfter(entries, n - 1), entries[n])

\* The exact value of (a / b) * c as a fraction.
Quotient(a, b, c) == [num |-> a * c, den |-> b]

Zero == [num |-> 0, den |-> 1]

Percent == 100

\* The division without its guard.
growthRateUnguarded(totalMemoryGrowthMb, maxMemoryMb) ==
    Quotient(totalMemoryGrowthMb, maxMemoryMb, Percent)

\* maxMemoryMb > 0 ? (totalMemoryGrowthMb / maxMemoryMb) * 100 : 0
growthRate(totalMemoryGrowthMb, maxMemoryMb) ==
    IF maxMemoryMb > 0 THEN Quotient(totalMemoryGrowthMb, maxMemoryMb, Percent)
    ELSE Zero

\* The program with ?? where the source has ||: only undefined and null are
\* skipped.
programNullish(r) ==
    IF ~Nullish(OptFirst(r.args)) THEN OptFirst(r.args)
    ELSE IF ~Nullish(r.filename) THEN r.filename
    ELSE Str("Unknown")

\* program: raw.args?.[0] || raw.filename || 'Unknown'
program(r) == Or(Or(OptFirst(r.args), r.filename), Str("Unknown"))

parseScaleneProfile(r) ==
    LET agg == aggregatesAfter(r.files, Len(r.files))
    IN  [program |-> program(r),
         args |-> Or(r.args, Arr(<<>>)),
         elapsed_time |-> r.elapsed_time_sec,
         entrypoint_dir |-> Or(r.entrypoint_dir, Str("")),
         max_memory_mb |-> agg.maxMemoryMb,
         total_memory_growth_mb |-> agg.totalMemoryGrowthMb,
         growth_rate |-> growthRate(agg.totalMemoryGrowthMb, agg.maxMemoryMb),
         total_cpu_percent_python |-> agg.totalCpuPython,
         total_cpu_percent_c |-> agg.totalCpuC,
         total_sys_percent |-> agg.totalSys,
         alloc_samples |-> Or(r.alloc_samples, Num(0)),
         free_samples |-> Or(r.free_samples, Num(0)),
         files |-> agg.files]

parseScaleneProfileThrows(r) ==
    \/ \E i \in 1..Len(r.files) : parseScaleneFileThrows(r.files[i].data)
    \/ IsThrow(OptFirst(r.args))

(***************************************************************************)
(* Raw reports the external profiler can hand over                         *)
(*                                                                         *)
(* raw.files is a JSON object: here the sequence of its [path, data]       *)
(* entries in Object.entries order, with distinct paths.                   *)
(***************************************************************************)
MaxLines == 2

MaxFunctions == 2

Paths == {"a.py", "b.py"}

\* A raw line that carries only the mandatory fields.
BareLine(n) ==
    [lineno |-> n, line |-> "x = f()",
     n_cpu_percent_python |-> Undefined, n_cpu_percent_c |-> Undefined,
     n_sys_percent |-> Undefined, n_core_utilization |-> Undefined,
     cpu_samples_list |-> Undefined,
     n_malloc_mb |-> Undefined, n_peak_mb |-> Undefined, n_avg_mb |-> Undefined,
     n_growth_mb |-> Undefined, n_python_fraction |-> Undefined,
     n_usage_fraction |-> Undefined, n_copy_mb_s |-> Undefined,
     n_mallocs |-> Undefined, memory_samples |-> Undefined,
     n_gpu_percent |-> Undefined, n_gpu_peak_memory_mb |-> Undefined,
     n_gpu_avg_memory_mb |-> Undefined,
     start_region_line |-> Undefined, end_region_line |-> Undefined,
     start_outermost_loop |-> Undefined, end_outermost_loop |-> Undefined]

BareFile == [lines |-> <<>>, functions |-> <<>>, leaks |-> Undefined]

BareReport ==
    [files |-> <<>>, args |-> Undefined, elapsed_time_sec |-> Num(1),
     entrypoint_dir |-> Undefined, filename |-> Undefined,
     alloc_samples |-> Undefined, free_samples |-> Undefined]

OneFile(file) == [BareReport EXCEPT !.files = <<[path |-> "a.py", data |-> file]>>]

\* All sequences over S of length at most n.
SeqsUpTo(S, n) == UNION {[1..k -> S] : k \in 0..n}

\* Reports of one file with one line: every combination of the fields the
\* leak score reads, under every shape of the file's leaks map.
LeakMaps ==
    {Undefined, Obj(EmptyProps)}
    \cup {Obj([k \in {key} |-> Num(w)]) : key \in {"1", "10", "01"}, w \in {-5, 0, 1, 30}}
    \cup {Obj([k \in {"1", "10"} |-> IF k = "1" THEN Num(1) ELSE Num(30)])}

ScoredLines ==
    {[BareLine(n) EXCEPT !.n_growth_mb = g, !.n_malloc_mb = m, !.n_usage_fraction = u] :
        n \in {1, 10},
        g \in {Undefined, Num(-2), Num(0), Num(3), Num(5)},
        m \in {Undefined, Num(-1), Num(0), Num(2)},
        u \in {Undefined, Num(0), Num(1), Num(3), Num(5)}}

ScoredReports ==
    {OneFile([BareFile EXCEPT !.lines = <<l>>, !.leaks = lk]) :
        l \in ScoredLines, lk \in LeakMaps}

\* Reports of up to two files of up to MaxLines lines each: a line with every
\* aggregated field, a line that shrinks, and a line without metrics, under
\* line numbers that can repeat within a file.
Hot(n) ==
    [BareLine(n) EXCEPT !.n_growth_mb = Num(5), !.n_malloc_mb = Num(2),
        !.n_usage_fraction = Num(1), !.n_peak_mb = Num(100),
        !.n_cpu_percent_python = Num(3), !.n_cpu_percent_c = Num(2),
        !.n_sys_percent = Num(1)]

Cool(n) ==
    [BareLine(n) EXCEPT !.n_growth_mb = Num(-2), !.n_peak_mb = Num(200),
        !.n_cpu_percent_python = Num(1)]

SampledLines == {Hot(1), Cool(1), Cool(2), BareLine(2)}

SampledFiles == {[BareFile EXCEPT !.lines = ls] : ls \in SeqsUpTo(SampledLines, MaxLines)}

DistinctPaths(entries) ==
    \A i, j \in 1..Len(entries) : entries[i].path = entries[j].path => i = j

SampledReports ==
    {[BareReport EXCEPT !.files = es] :
        es \in {e \in SeqsUpTo([path : Paths, data : SampledFiles], Cardinality(Paths)) :
                    DistinctPaths(e)}}

\* Reports without files: every combination of the report's own fields.
HeaderReports ==
    {[BareReport EXCEPT !.args = a, !.filename = f, !.entrypoint_dir = d,
                        !.alloc_samples = al, !.free_samples = fr] :
        a \in {Undefined, Arr(<<>>), Arr(<<Str("")>>), Arr(<<Str("app.py")>>),
               Arr(<<Str("app.py"), Str("-v")>>)},
        f \in {Undefined, Str(""), Str("main.py")},
        d \in {Undefined, Str("/work")},
        al \in {Undefined, Num(0), Num(4)},
        fr \in {Undefined, Num(2)}}

\* Reports of one file that holds only functions.
RawFunctions ==
    {[name |-> nm, lineno |-> ln,
      n_cpu_percent_python |-> Undefined, n_cpu_percent_c |-> Undefined,
      n_sys_percent |-> Undefined, n_malloc_mb |-> Undefined,
      n_peak_mb |-> Undefined, n_growth_mb |-> g, n_copy_mb_s |-> Undefined] :
        nm \in {Undefined, Str(""), Str("f")},
        ln \in {Undefined, Num(0), Num(7)},
        g \in {Undefined, Num(4)}}

FunctionReports ==
    {OneFile([BareFile EXCEPT !.functions = fs]) : fs \in SeqsUpTo(RawFunctions, MaxFunctions)}

\* Reports of one file with one line (number 2) that carries metrics, region
\* markers and sample lists: each optional number alone, as 0 and as 7, and
\* the line without any and with all of them under each pair of sample lists.
MetricFields ==
    {"n_cpu_percent_python", "n_cpu_percent_c", "n_sys_percent", "n_core_utilization",
     "n_malloc_mb", "n_peak_mb", "n_avg_mb", "n_growth_mb", "n_python_fraction",
     "n_usage_fraction", "n_copy_mb_s", "n_mallocs",
     "n_gpu_percent", "n_gpu_peak_memory_mb", "n_gpu_avg_memory_mb"}

RegionFields ==
    {"start_region_line", "end_region_line", "start_outermost_loop", "end_outermost_loop"}

SampleLists == {Undefined, Arr(<<>>), Arr(<<Num(1), Num(2)>>)}

FullLine ==
    [k \in DOMAIN BareLine(2) |->
        IF k \in MetricFields \cup RegionFields
        THEN (IF k \in {"n_sys_percent", "n_avg_mb", "n_gpu_percent"} THEN Num(0) ELSE Num(7))
        ELSE BareLine(2)[k]]

ProfiledLines ==
    {[BareLine(2) EXCEPT ![f] = v] :
        f \in MetricFields \cup RegionFields, v \in {Num(0), Num(7)}}
    \cup {[l EXCEPT !.cpu_samples_list = c, !.memory_samples = m] :
            l \in {BareLine(2), FullLine}, c \in SampleLists, m \in SampleLists}

ProfiledReports ==
    {OneFile([BareFile EXCEPT !.lines = <<l>>]) : l \in ProfiledLines}

\* Reports of two files with the same leaks map and one line each, the two
\* lines alike in every field but a growth, which is positive in both.
PairedReports ==
    {[BareReport EXCEPT !.files =
        <<[path |-> "a.py",
           data |-> [BareFile EXCEPT !.lines = <<[l EXCEPT !.n_growth_mb = Num(g[1])]>>,
                                     !.leaks = lk]],
          [path |-> "b.py",
           data |-> [BareFile EXCEPT !.lines = <<[l EXCEPT !.n_growth_mb = Num(g[2])]>>,
                                     !.leaks = lk]]>>] :
        l \in {[BareLine(1) EXCEPT !.n_malloc_mb = m, !.n_usage_fraction = u] :
                    m \in {Undefined, Num(-1), Num(2)}, u \in {Undefined, Num(1)}},
        g \in {<<1, 3>>, <<5, 3>>, <<1, 5>>},
        lk \in {Undefined, Obj([k \in {"1"} |-> Num(30)])}}

RawReports ==
    ScoredReports \cup SampledReports \cup HeaderReports \cup FunctionReports
        \cup ProfiledReports \cup PairedReports

\* Reports whose optional fields hold null or a value of the wrong type.
MalformedLines ==
    {[BareLine(1) EXCEPT !.n_growth_mb = g, !.n_usage_fraction = u, !.n_peak_mb = p,
                         !.cpu_samples_list = c, !.memory_samples = m] :
        g \in {Null, Num(5)},
        u \in {Undefined, Null},
        p \in {Null, Num(100)},
        c \in {Undefined, Null, Num(7), Arr(<<Num(1), Num(2)>>)},
        m \in {Undefined, Null, Arr(<<>>)}}

MalformedReports ==
    {[OneFile([BareFile EXCEPT !.lines = <<l>>, !.leaks = lk])
        EXCEPT !.args = a, !.entrypoint_dir = d, !.alloc_samples = d] :
        l \in MalformedLines,
        lk \in {Undefined, Null, Num(7), Obj([k \in {"1"} |-> Num(30)])},
        a \in {Undefined, Null, Num(7), Arr(<<Str("app.py")>>)},
        d \in {Undefined, Null}}

(***************************************************************************)
(* The state machine: a raw report is normalized (pc = "done" right after  *)
(* parseScaleneProfile returned), then shown, its lines being classified.  *)
(***************************************************************************)
Thresholds == {Undefined, Num(0), Num(80)}

NoVerdict == [t |-> "none"]

Init ==
    /\ raw \in RawReports
    /\ out = Undefined
    /\ pc = "ready"
    /\ verdict = NoVerdict
    /\ alias = {}
    /\ RunnerIdle
    /\ ToolsIdle

InitAny ==
    /\ raw \in RawReports \cup MalformedReports
    /\ out = Undefined
    /\ pc = "ready"
    /\ verdict = NoVerdict
    /\ alias = {}
    /\ RunnerIdle
    /\ ToolsIdle

\* The containers of the normalized report that are the very objects of the
\* raw report: `args: raw.args || []` and `leaks: raw.leaks || {}` evaluate to
\* the raw array and the raw map when these are truthy, and to a fresh
\* literal otherwise.  "args" names the argument array, a path the leaks map
\* of the file under it.
sharedContainers(r) ==
    (IF Truthy(r.args) THEN {"args"} ELSE {})
        \cup {r.files[i].path : i \in {j \in 1..Len(r.files) : Truthy(r.files[j].data.leaks)}}

\* The first call with `raw.args = raw.args || []` written into the raw report.
ParseDefaultingInPlace ==
    /\ pc = "ready"
    /\ IF parseScaleneProfileThrows(raw)
       THEN pc' = "threw" /\ out' = out /\ alias' = alias /\ raw' = raw
       ELSE /\ pc' = "done"
            /\ out' = parseScaleneProfile(raw)
            /\ alias' = sharedContainers(raw) \cup {"args"}
            /\ raw' = [raw EXCEPT !.args = Or(@, Arr(<<>>))]
    /\ UNCHANGED <<verdict, runnerVars, toolVars>>

\* const profile = parseScaleneProfile(rawProfile): the first call.  The
\* function assigns to no property of its argument.
Parse ==
    /\ pc = "ready"
    /\ IF parseScaleneProfileThrows(raw)
       THEN pc' = "threw" /\ out' = out /\ alias' = alias
       ELSE /\ pc' = "done"
            /\ out' = parseScaleneProfile(raw)
            /\ alias' = sharedContainers(raw)
    /\ UNCHANGED <<raw, verdict, runnerVars, toolVars>>

\* The lines the viewer can hand to the classifier: the lines of the
\* normalized report, and the same lines without their optional leak_score.
ShownLines ==
    UNION {UNION {{out.files[p].lines[n],
                   [out.files[p].lines[n] EXCEPT !.leak_score = Undefined]} :
                     n \in DOMAIN out.files[p].lines} : p \in DOMAIN out.files}

\* The viewer is shown the normalized report and calls isLikelyLeak(line) or
\* isLikelyLeak(line, threshold) on one of these lines.
Classify ==
    /\ pc \in {"done", "shown"}
    /\ pc' = "shown"
    /\ \E line \in ShownLines :
         \E th \in Thresholds :
            verdict' = [leak_score |-> line.leak_score, threshold |-> th,
                        result |-> isLikelyLeak(line, th)]
    /\ UNCHANGED <<raw, out, alias, runnerVars, toolVars>>

Next == Parse \/ Classify

Spec == Init /\ [][Next]_vars

SpecAny == InitAny /\ [][Next]_vars

(***************************************************************************)
(* Ownership: the normalizer is called again on the raw report it was      *)
(* given, and the caller writes into the containers of either report.  A   *)
(* write into an object is seen through every reference to it.             *)
(***************************************************************************)
MaxArgs == 2

MaxLeaks == 2

\* Reports of one file of one line, with and without arguments and leaks.
OwnedReports ==
    {[OneFile([BareFile EXCEPT !.lines = <<Hot(1)>>, !.leaks = lk]) EXCEPT !.args = a] :
        a \in {Undefined, Arr(<<Str("app.py")>>)},
        lk \in {Undefined, Obj([k \in {"1"} |-> Num(30)])}}

InitOwned ==
    /\ raw \in OwnedReports
    /\ out = Undefined
    /\ pc = "ready"
    /\ verdict = NoVerdict
    /\ alias = {}
    /\ RunnerIdle
    /\ ToolsIdle

\* parseScaleneProfile called again on the same raw report.
Reparse ==
    /\ pc \in {"done", "again", "written"}
    /\ pc' = "again"
    /\ out' = parseScaleneProfile(raw)
    /\ alias' = sharedContainers(raw)
    /\ UNCHANGED <<raw, verdict, runnerVars, toolVars>>

\* array.push(item)
push(array, item) == Arr(Append(array.items, item))

\* map[key] = value
setProp(map, key, value) ==
    Obj([k \in DOMAIN map.props \cup {key} |-> IF k = key THEN value ELSE map.props[k]])

\* The raw report with the leaks map of the file under a path replaced.
withRawLeaks(r, path, leaks) ==
    [r EXCEPT !.files =
        [i \in DOMAIN r.files |->
            IF r.files[i].path = path THEN [r.files[i] EXCEPT !.data.leaks = leaks]
            ELSE r.files[i]]]

NewArgs == {Str("-v"), Str("x")}

NewLeaks == {"2", "3"} \X {Num(1), Num(30)}

\* The caller appends to the argument array of one report.
PushArg ==
    /\ pc \in {"done", "again", "written"}
    /\ pc' = "written"
    /\ \E item \in NewArgs :
        \/ /\ Len(out.args.items) < MaxArgs
           /\ out' = [out EXCEPT !.args = push(@, item)]
           /\ raw' = IF "args" \in alias THEN [raw EXCEPT !.args = push(@, item)] ELSE raw
        \/ /\ raw.args # Undefined
           /\ Len(raw.args.items) < MaxArgs
           /\ raw' = [raw EXCEPT !.args = push(@, item)]
           /\ out' = IF "args" \in alias THEN [out EXCEPT !.args = push(@, item)] ELSE out
    /\ UNCHANGED <<verdict, alias, runnerVars, toolVars>>

\* The caller adds an entry to the leaks map of a file of one report.
SetLeak ==
    /\ pc \in {"done", "again", "written"}
    /\ pc' = "written"
    /\ \E path \in DOMAIN out.files : \E entry \in NewLeaks :
        LET i == CHOOSE j \in 1..Len(raw.files) : raw.files[j].path = path
            rawLeaks == raw.files[i].data.leaks
            leaks == out.files[path].leaks
        IN  \/ /\ Cardinality(DOMAIN leaks.props) < MaxLeaks
               /\ out' = [out EXCEPT !.files[path].leaks = setProp(@, entry[1], entry[2])]
               /\ raw' = IF path \in alias
                          THEN withRawLeaks(raw, path, setProp(rawLeaks, entry[1], entry[2]))
                          ELSE raw
            \/ /\ rawLeaks # Undefined
               /\ Cardinality(DOMAIN rawLeaks.props) < MaxLeaks
               /\ raw' = withRawLeaks(raw, path, setProp(rawLeaks, entry[1], entry[2]))
               /\ out' = IF path \in alias
                          THEN [out EXCEPT !.files[path].leaks = setProp(@, entry[1], entry[2])]
                          ELSE out
    /\ UNCHANGED <<verdict, alias, runnerVars, toolVars>>

NextOwned == Parse \/ Reparse \/ PushArg \/ SetLeak

SpecOwned == InitOwned /\ [][NextOwned]_vars

(***************************************************************************)
(* ScaleneRunner: run() with its suspension points, the handlers of the    *)
(* child's events, stop(), and the View Last Profile command.              *)
(***************************************************************************)
parserVars == <<raw, out, pc, verdict, alias>>

\* generateProfilePath: the path carries the time of the call.
generateProfilePath(c) == "app-" \o String(c) \o ".json"

\* The code of a 'close' event: the exit code of a child that exited, null
\* for a child that a signal ended.  A child that was sent SIGTERM closes
\* with null when the signal ended it, and with its exit code when it had
\* already exited or exits by itself on the signal.
ExitCodes == {Num(0), Num(1), Null}

\* The code of the 'close' event that follows a failed spawn.
SpawnFailed == Num(-2)

\* return null
\* profileRegion resumes after `await runner.run`: its finally block unlinks
\* the temporary file, an error of unlinkSync is swallowed, and the command
\* ends as run() ended.
profileRegionResume(run, unlinked) ==
    IF run.region = "pending" /\ run.promise # "pending"
    THEN [run EXCEPT !.temp = IF unlinked THEN "deleted" ELSE "kept",
                     !.region = IF run.promise = "rejected" THEN "rejected" ELSE "resolved"]
    ELSE run

\* run() returns null and leaves the temporary file to its caller's caller.
returnNullKeepingTemp(c) ==
    runs' = [runs EXCEPT ![c].pc = "returned", ![c].promise = "null"]

returnNull(c) ==
    \E unlinked \in BOOLEAN :
        runs' = [runs EXCEPT ![c] = profileRegionResume(
                    [@ EXCEPT !.pc = "returned", !.promise = "null"], unlinked)]

\* isRunning()
isRunning == process # NoProcess

\* stop() that sends the signal and leaves the reference and the status bar.
stopSignalOnly(rs) ==
    /\ runs' = IF process # NoProcess THEN [rs EXCEPT ![process].killed = TRUE] ELSE rs
    /\ process' = process
    /\ statusBar' = statusBar

\* stop(), on the calls rs: SIGTERM to the tracked process, the reference
\* cleared and the status bar idle; nothing without a tracked process.
stop(rs) ==
    /\ runs' = IF process # NoProcess THEN [rs EXCEPT ![process].killed = TRUE] ELSE rs
    /\ process' = NoProcess
    /\ statusBar' = IF process # NoProcess THEN "idle" ELSE statusBar

\* run() from generateProfilePath to spawn: one synchronous stretch.
spawn(c) ==
    /\ lastProfilePath' = generateProfilePath(c)
    /\ statusBar' = "running"
    /\ process' = c
    /\ runs' = [runs EXCEPT ![c].pc = "spawned", ![c].child = "alive"]

\* run() is called, by Profile Current File or by Profile Selected Code
\* (isTemp), which has written the temporary file: run() tests this.process
\* and awaits the 'Stop it?' prompt, or goes on to await the interpreter and
\* the Scalene check.
RunStart(c) ==
    /\ runs[c].pc = "unused"
    /\ \A b \in Runs : b < c => runs[b].pc # "unused"
    /\ \E isTemp \in BOOLEAN :
        runs' = [runs EXCEPT ![c].pc = IF process # NoProcess THEN "askStop" ELSE "checking",
                             ![c].promise = "pending",
                             ![c].temp = IF isTemp THEN "written" ELSE @,
                             ![c].region = IF isTemp THEN "pending" ELSE @]
    /\ UNCHANGED <<process, lastProfilePath, statusBar, view, viewer, parserVars, toolVars>>

\* The prompt handled with stop() called before the answer is looked at.
AnswerStopStopsFirst(c) ==
    /\ runs[c].pc = "askStop"
    /\ \E choice \in {"Yes", "No", "undefined"} :
        IF choice # "Yes"
        THEN stop([runs EXCEPT ![c].pc = "returned", ![c].promise = "null"])
        ELSE stop([runs EXCEPT ![c].pc = "checking"])
    /\ UNCHANGED <<lastProfilePath, view, viewer, parserVars, toolVars>>

\* The 'Stop it?' prompt is answered or dismissed.
AnswerStop(c) ==
    /\ runs[c].pc = "askStop"
    /\ \E choice \in {"Yes", "No", "undefined"} :
        IF choice # "Yes"
        THEN returnNull(c) /\ UNCHANGED <<process, statusBar>>
        ELSE stop([runs EXCEPT ![c].pc = "checking"])
    /\ UNCHANGED <<lastProfilePath, view, viewer, parserVars, toolVars>>

\* detectPython and checkScalene have settled.
CheckDone(c) ==
    /\ runs[c].pc = "checking"
    /\ \E scaleneAvailable \in BOOLEAN :
        IF scaleneAvailable THEN spawn(c)
        ELSE /\ runs' = [runs EXCEPT ![c].pc = "askInstall"]
             /\ UNCHANGED <<process, lastProfilePath, statusBar>>
    /\ UNCHANGED <<view, viewer, parserVars, toolVars>>

\* The 'Scalene not found' prompt is answered or dismissed.
AnswerInstall(c) ==
    /\ runs[c].pc = "askInstall"
    /\ \E choice \in {"Install", "Cancel", "undefined"} :
        IF choice = "Install" THEN runs' = [runs EXCEPT ![c].pc = "installing"]
        ELSE returnNull(c)
    /\ UNCHANGED <<process, lastProfilePath, statusBar, view, viewer, parserVars, toolVars>>

\* installScalene has settled.
InstallDone(c) ==
    /\ runs[c].pc = "installing"
    /\ \E installed \in BOOLEAN :
        IF installed THEN spawn(c)
        ELSE returnNull(c) /\ UNCHANGED <<process, lastProfilePath, statusBar>>
    /\ UNCHANGED <<view, viewer, parserVars, toolVars>>

\* The body of the 'close' handler that concerns the call itself.
closeHandler(run, code, autoOpenViewer) ==
    IF code = Num(0)
    THEN [run EXCEPT !.child = "closed",
                     !.viewRequested = autoOpenViewer,
                     !.notified = TRUE,
                     !.promise = IF @ = "pending" THEN "path" ELSE @]
    ELSE [run EXCEPT !.child = "closed",
                     !.promise = IF @ = "pending" THEN "rejected" ELSE @]

\* The 'close' event of the child of call c.
ChildClose(c) ==
    /\ runs[c].child \in {"alive", "failed"}
    /\ \E code \in (IF runs[c].child = "failed" THEN {SpawnFailed} ELSE ExitCodes) :
        \E autoOpenViewer \in BOOLEAN, unlinked \in BOOLEAN :
            runs' = [runs EXCEPT ![c] =
                        profileRegionResume(closeHandler(@, code, autoOpenViewer), unlinked)]
    /\ process' = NoProcess
    /\ statusBar' = "idle"
    /\ UNCHANGED <<lastProfilePath, view, viewer, parserVars, toolVars>>

\* The 'error' event of the child of call c: the spawn failed.
ChildError(c) ==
    /\ runs[c].child = "alive"
    /\ \E unlinked \in BOOLEAN :
        runs' = [runs EXCEPT ![c] = profileRegionResume(
                    [@ EXCEPT !.child = "failed",
                              !.promise = IF @ = "pending" THEN "rejected" ELSE @],
                    unlinked)]
    /\ process' = NoProcess
    /\ statusBar' = "idle"
    /\ UNCHANGED <<lastProfilePath, view, viewer, parserVars, toolVars>>

\* The Stop Profiling command.
Stop ==
    /\ stop(runs)
    /\ UNCHANGED <<lastProfilePath, view, viewer, parserVars, toolVars>>

(***************************************************************************)
(* View Last Profile                                                       *)
(***************************************************************************)
NoProfileFound == "No profile found. Run a profile first."

FailedToRead == "Failed to read profile file."

\* findLatestProfile(): the newest profile of the output directory, or null.
FoundPaths == {NoPath, "old.json"}

ViewedReports == {BareReport, OneFile([BareFile EXCEPT !.lines = <<Hot(1)>>])}

\* A profile file: one that cannot be read, one that is not JSON, and one
\* that holds a JSON value (null, a number, or a report).
ProfileFiles ==
    {[kind |-> "unreadable"], [kind |-> "invalid"]}
        \cup {[kind |-> "json", value |-> v] : v \in {Null, Num(0), Num(5)} \cup ViewedReports}

\* readProfileFile: the parsed content, or null when reading or parsing raised.
readProfileFile(file) == IF file.kind = "json" THEN file.value ELSE Null

\* A parsed JSON value that has the files of a report.
HasFiles(value) == "files" \in DOMAIN value

\* viewProfile without the test that the file exists.
viewProfileUnchecked(last, latest, exists, file) ==
    LET profilePath == IF last = NoPath THEN latest ELSE last
        rawProfile == readProfileFile(file)
    IN  [lastProfilePath |-> profilePath,
         profilePath |-> profilePath,
         rawProfile |-> rawProfile,
         outcome |-> IF profilePath = NoPath THEN NoProfileFound
                     ELSE IF ~HasFiles(rawProfile) /\ ~Truthy(rawProfile) THEN FailedToRead
                     ELSE "parse"]

\* viewProfile up to the call of the normalizer: the path it settles on, the
\* last path it leaves in the runner, and the message it stops with.
viewProfile(last, latest, exists, file) ==
    LET profilePath == IF last = NoPath THEN latest ELSE last
        rawProfile == readProfileFile(file)
    IN  [lastProfilePath |-> profilePath,
         profilePath |-> profilePath,
         rawProfile |-> rawProfile,
         outcome |-> IF profilePath = NoPath \/ ~exists THEN NoProfileFound
                     ELSE IF ~HasFiles(rawProfile) /\ ~Truthy(rawProfile) THEN FailedToRead
                     ELSE "parse"]

\* The command, whole: the disk answers findLatestProfile, existsSync and
\* readFileSync; a file that does not exist cannot be read.
ViewProfile ==
    \E latest \in FoundPaths : \E exists \in BOOLEAN : \E file \in ProfileFiles :
        LET v == viewProfile(lastProfilePath, latest, exists, file)
            throws == ~HasFiles(v.rawProfile) \/ parseScaleneProfileThrows(v.rawProfile)
        IN  /\ ~exists => file.kind = "unreadable"
            /\ v.profilePath = NoPath => ~exists
            /\ lastProfilePath' = v.lastProfilePath
            /\ IF v.outcome # "parse"
               THEN /\ view' = [path |-> v.profilePath, exists |-> exists,
                                kind |-> file.kind, outcome |-> v.outcome]
                    /\ UNCHANGED <<raw, out, pc, alias, viewer>>
               ELSE IF throws
               THEN /\ view' = [path |-> v.profilePath, exists |-> exists,
                                kind |-> file.kind, outcome |-> "TypeError"]
                    /\ raw' = v.rawProfile
                    /\ pc' = "threw"
                    /\ UNCHANGED <<out, alias, viewer>>
               ELSE /\ view' = [path |-> v.profilePath, exists |-> exists,
                                kind |-> file.kind, outcome |-> "shown"]
                    /\ raw' = v.rawProfile
                    /\ pc' = "done"
                    /\ out' = parseScaleneProfile(v.rawProfile)
                    /\ alias' = sharedContainers(v.rawProfile)
                    /\ viewer' = parseScaleneProfile(v.rawProfile)
            /\ UNCHANGED <<verdict, process, statusBar, runs, toolVars>>

InitRunner ==
    /\ raw = Undefined
    /\ out = Undefined
    /\ pc = "ready"
    /\ verdict = NoVerdict
    /\ alias = {}
    /\ RunnerIdle
    /\ ToolsIdle

\* Overlapping calls of run(), the events of their children, and stop().
NextRunner ==
    \/ \E c \in Runs : RunStart(c)
    \/ \E c \in Runs : AnswerStop(c)
    \/ \E c \in Runs : CheckDone(c)
    \/ \E c \in Runs : AnswerInstall(c)
    \/ \E c \in Runs : InstallDone(c)
    \/ \E c \in Runs : ChildClose(c)
    \/ \E c \in Runs : ChildError(c)
    \/ Stop

SpecRunner == InitRunner /\ [][NextRunner]_vars

\* One call of run(), and View Last Profile at any moment before, during
\* and after it.
NextView ==
    \/ RunStart(1)
    \/ CheckDone(1)
    \/ AnswerInstall(1)
    \/ InstallDone(1)
    \/ ChildClose(1)
    \/ ChildError(1)
    \/ Stop
    \/ ViewProfile

SpecView == InitRunner /\ [][NextView]_vars

(***************************************************************************)
(* The formatters of the viewer.  A number is counted in units of 1/Scale, *)
(* so 0.005 is 500 and 2048 is 204800000.  toFixed rounds to the nearest   *)
(* multiple of the last decimal; the numbers formatted here are never      *)
(* halfway between two of them, where the binary value of the number       *)
(* would decide.                                                           *)
(***************************************************************************)
Scale == 100000

Pow10(digits) == CASE digits = 1 -> 10 [] digits = 2 -> 100

\* x.toFixed(digits) for x >= 0.
toFixed(x, digits) ==
    LET unit == Scale \div Pow10(digits)
        n == (x + unit \div 2) \div unit
        whole == n \div Pow10(digits)
        decimals == n % Pow10(digits)
    IN  String(whole) \o "."
            \o (IF digits = 2 /\ decimals < 10 THEN "0" ELSE "") \o String(decimals)

\* formatMemoryMb with the division by 1000 for the GB case.
formatMemoryMbDecimalGb(mb) ==
    IF mb = Undefined \/ mb.n = 0 THEN "-"
    ELSE IF mb.n < Scale \div 100 THEN "<0.01 MB"
    ELSE IF mb.n < Scale THEN toFixed(mb.n, 2) \o " MB"
    ELSE IF mb.n < 1000 * Scale THEN toFixed(mb.n, 1) \o " MB"
    ELSE toFixed(mb.n \div 1000, 2) \o " GB"

\* formatMemoryMb.  (mb / 1024).toFixed(2): mb / 1024 is rounded to n
\* hundredths, which toFixed then spells.
formatMemoryMb(mb) ==
    IF mb = Undefined \/ mb.n = 0 THEN "-"
    ELSE IF mb.n < Scale \div 100 THEN "<0.01 MB"
    ELSE IF mb.n < Scale THEN toFixed(mb.n, 2) \o " MB"
    ELSE IF mb.n < 1000 * Scale THEN toFixed(mb.n, 1) \o " MB"
    ELSE LET unit == 1024 * (Scale \div 100)
             n == (mb.n + unit \div 2) \div unit
         IN  toFixed(n * (Scale \div 100), 2) \o " GB"

\* formatPercent with <= in place of < in the second test.
formatPercentAtLimit(value) ==
    IF value = Undefined \/ value.n = 0 THEN "-"
    ELSE IF value.n <= Scale \div 100 THEN "<0.01%"
    ELSE toFixed(value.n, 2) \o "%"

\* formatPercent
formatPercent(value) ==
    IF value = Undefined \/ value.n = 0 THEN "-"
    ELSE IF value.n < Scale \div 100 THEN "<0.01%"
    ELSE toFixed(value.n, 2) \o "%"

MaxSteps == 12

\* A number halfway between two spellings of toFixed.
Halfway(x) ==
    /\ x >= Scale \div 100
    /\ \/ x % 1000 = 500
       \/ x >= Scale /\ x % 10000 = 5000
       \/ x >= 1000 * Scale /\ x % 1024000 = 512000

\* The numbers of the documentation, each limit of the formatters, and
\* numbers on both sides of each limit.
FormatInputs ==
    {Undefined} \cup
    {Num(x) : x \in
        {y \in {0, -200000, 500, 999, 1000, 50000, 99400, 99600, 100000, 4270000,
                 100000000, 204800000, 314159}
                \cup {700 + 130 * k : k \in 0..MaxSteps}
                \cup {99310 + 130 * k : k \in 0..MaxSteps}
                \cup {99993100 + 1300 * k : k \in 0..MaxSteps}
                \cup {100000000 + 256000 * k : k \in 0..MaxSteps} : ~Halfway(y)}}

InitFormat ==
    /\ raw = Undefined
    /\ out = Undefined
    /\ pc = "ready"
    /\ verdict = NoVerdict
    /\ alias = {}
    /\ RunnerIdle
    /\ fmt \in {[NoFormat EXCEPT !.value = v] : v \in FormatInputs}
    /\ install = NoInstall
    /\ tabs = NoTabs

\* The viewer spells a memory size.
FormatMemory ==
    /\ fmt.memory = ""
    /\ fmt' = [fmt EXCEPT !.memory = formatMemoryMb(fmt.value)]
    /\ UNCHANGED <<parserVars, runnerVars, install, tabs>>

\* The viewer spells a percentage.
FormatPercent ==
    /\ fmt.percent = ""
    /\ fmt' = [fmt EXCEPT !.percent = formatPercent(fmt.value)]
    /\ UNCHANGED <<parserVars, runnerVars, install, tabs>>

NextFormat == FormatMemory \/ FormatPercent

SpecFormat == InitFormat /\ [][NextFormat]_vars

(***************************************************************************)
(* installScalene (utils/python.ts)                                        *)
(*                                                                         *)
(* An installer process is "alive" after spawn, "erred" after its 'error'  *)
(* event when the 'close' event is still to come, "failed" after an        *)
(* 'error' event that no 'close' follows, and "closed" after 'close'.  A   *)
(* pip started as fallback is "starting" while detectPython is awaited.    *)
(***************************************************************************)
Alive == [NoProc EXCEPT !.state = "alive"]

Starting == [NoProc EXCEPT !.state = "starting"]

\* The interpreters detectPython answers with: the configured one, the one
\* of the Python extension, and the default.
PythonPaths == {"/opt/python", "/venv/bin/python", "python3"}

\* resolve(value): the first call settles the promise, later calls do nothing.
resolve(result, value) == IF result = "pending" THEN value ELSE result

\* installWithPipFallback is called: it awaits detectPython.
installWithPipFallback(pips) == Append(pips, Starting)

\* installWithUv's 'close' handler.
uvCloseHandler(i, code) ==
    IF code = Num(0)
    THEN [i EXCEPT !.uv.state = "closed", !.uv.code = code,
                   !.result = resolve(@, "true")]
    ELSE [i EXCEPT !.uv.state = "closed", !.uv.code = code,
                   !.pips = installWithPipFallback(@)]

\* installWithPip's 'close' handler, for the pip at position k.
pipCloseHandler(i, k, code) ==
    [i EXCEPT !.pips[k].state = "closed", !.pips[k].code = code,
              !.result = resolve(@, IF code = Num(0) THEN "true" ELSE "false")]

\* installScalene is called and awaits detectInstallContext.
InstallScalene ==
    /\ install.pc = "idle"
    /\ \E pythonPath \in PythonPaths :
        install' = [install EXCEPT !.pc = "detecting", !.pythonPath = pythonPath]
    /\ UNCHANGED <<parserVars, runnerVars, fmt, tabs>>

\* detectInstallContext has settled: installWithUv or installWithPip spawns.
DetectDone ==
    /\ install.pc = "detecting"
    /\ \E hasUv \in BOOLEAN, hasPyprojectFile \in BOOLEAN :
        LET packageManager == IF hasUv /\ hasPyprojectFile THEN "uv" ELSE "pip"
        IN  install' = [install EXCEPT
                !.pc = "installing",
                !.hasUv = hasUv,
                !.hasPyproject = hasPyprojectFile,
                !.packageManager = packageManager,
                !.uv = IF packageManager = "uv" THEN Alive ELSE @,
                !.pips = IF packageManager = "uv" THEN @
                         ELSE <<[Alive EXCEPT !.pythonPath = install.pythonPath]>>]
    /\ UNCHANGED <<parserVars, runnerVars, fmt, tabs>>

\* The 'close' event of uv: after its exit, or after its 'error' event.
UvClose ==
    /\ install.uv.state \in {"alive", "erred"}
    /\ \E code \in (IF install.uv.state = "erred" THEN {SpawnFailed} ELSE ExitCodes) :
        install' = uvCloseHandler(install, code)
    /\ UNCHANGED <<parserVars, runnerVars, fmt, tabs>>

\* The 'error' event of uv: it could not be spawned.  Whether 'close'
\* follows is the runtime's choice.
UvError ==
    /\ install.uv.state = "alive"
    /\ \E closeFollows \in BOOLEAN :
        install' = [install EXCEPT
            !.uv.state = IF closeFollows THEN "erred" ELSE "failed",
            !.pips = installWithPipFallback(@)]
    /\ UNCHANGED <<parserVars, runnerVars, fmt, tabs>>

\* detectPython has settled in installWithPipFallback: installWithPip spawns.
FallbackSpawn(k) ==
    /\ k \in DOMAIN install.pips
    /\ install.pips[k].state = "starting"
    /\ \E pythonPath \in PythonPaths :
        install' = [install EXCEPT !.pips[k] = [Alive EXCEPT !.pythonPath = pythonPath]]
    /\ UNCHANGED <<parserVars, runnerVars, fmt, tabs>>

\* The 'close' event of a pip.
PipClose(k) ==
    /\ k \in DOMAIN install.pips
    /\ install.pips[k].state = "alive"
    /\ \E code \in ExitCodes : install' = pipCloseHandler(install, k, code)
    /\ UNCHANGED <<parserVars, runnerVars, fmt, tabs>>

\* The 'error' event of a pip: it could not be spawned.  installWithPip
\* registers no 'error' listener, so emitting the event throws and the
\* 'close' event is not reached.
PipError(k) ==
    /\ k \in DOMAIN install.pips
    /\ install.pips[k].state = "alive"
    /\ install' = [install EXCEPT !.pips[k].state = "failed"]
    /\ UNCHANGED <<parserVars, runnerVars, fmt, tabs>>

InitInstall ==
    /\ raw = Undefined
    /\ out = Undefined
    /\ pc = "ready"
    /\ verdict = NoVerdict
    /\ alias = {}
    /\ RunnerIdle
    /\ ToolsIdle

NextInstall ==
    \/ InstallScalene
    \/ DetectDone
    \/ UvClose
    \/ UvError
    \/ \E k \in DOMAIN install.pips : FallbackSpawn(k)
    \/ \E k \in DOMAIN install.pips : PipClose(k)
    \/ \E k \in DOMAIN install.pips : PipError(k)

SpecInstall == InitInstall /\ [][NextInstall]_vars

(***************************************************************************)
(* The tabs of the viewer (views/ProfileViewerPanel.ts)                    *)
(*                                                                         *)
(* A tab is the set of its table rows; the order of the rows (the leaks    *)
(* are sorted by score) is not kept.                                       *)
(***************************************************************************)
\* The filter of renderLineProfile.  The limit 0.01 lies between 0 and the
\* smallest positive value of the integer metrics.
significant(line) ==
    \/ Gt(Or(line.n_cpu_percent_python, Num(0)), 0)
    \/ Gt(Or(line.n_cpu_percent_c, Num(0)), 0)
    \/ Gt(Or(line.n_peak_mb, Num(0)), 0)
    \/ Gt(Or(line.n_growth_mb, Num(0)), 0)

\* renderLineProfile with renderLine: one row for each significant line, the
\* row of a likely leak in the class leak-line.
renderLineProfile(profile) ==
    {[file |-> p, lineno |-> profile.files[p].lines[n].lineno,
      leakLine |-> isLikelyLeak(profile.files[p].lines[n], Undefined)] :
        <<p, n>> \in {pn \in Paths \X {1, 2, 10} :
                        /\ pn[1] \in DOMAIN profile.files
                        /\ pn[2] \in DOMAIN profile.files[pn[1]].lines
                        /\ significant(profile.files[pn[1]].lines[pn[2]])}}

\* renderLeakProfile: one row for each line that isLikelyLeak accepts at the
\* default threshold.
renderLeakProfile(profile) ==
    {[file |-> p, lineno |-> profile.files[p].lines[n].lineno,
      leak_score |-> profile.files[p].lines[n].leak_score] :
        <<p, n>> \in {pn \in Paths \X {1, 2, 10} :
                        /\ pn[1] \in DOMAIN profile.files
                        /\ pn[2] \in DOMAIN profile.files[pn[1]].lines
                        /\ isLikelyLeak(profile.files[pn[1]].lines[pn[2]], Undefined)}}

\* Reports of one line that Scalene itself marks as a leak, with and without
\* a measured growth or peak.
FlaggedReports ==
    {OneFile([BareFile EXCEPT
                !.lines = <<[BareLine(1) EXCEPT !.n_growth_mb = g, !.n_peak_mb = pk]>>,
                !.leaks = Obj([k \in {"1"} |-> Num(w)])]) :
        g \in {Undefined, Num(0), Num(3)}, pk \in {Undefined, Num(100)}, w \in {40, 60}}

InitTabs ==
    /\ raw \in ScoredReports \cup SampledReports \cup FlaggedReports
    /\ out = Undefined
    /\ pc = "ready"
    /\ verdict = NoVerdict
    /\ alias = {}
    /\ RunnerIdle
    /\ ToolsIdle

\* The viewer renders the tabs of the normalized report.
Render ==
    /\ pc = "done"
    /\ pc' = "rendered"
    /\ tabs' = [lineProfile |-> renderLineProfile(out), leakProfile |-> renderLeakProfile(out)]
    /\ UNCHANGED <<raw, out, verdict, alias, runnerVars, fmt, install>>

NextTabs == Parse \/ Render

SpecTabs == InitTabs /\ [][NextTabs]_vars

(***************************************************************************)
(* Vocabulary of the properties                                            *)
(***************************************************************************)
Done == pc = "done"

Present(x) == x.t = "number"

\* The raw file stored under a path of the raw report.
RawFileAt(p) ==
    LET i == CHOOSE j \in 1..Len(raw.files) : raw.files[j].path = p
    IN  raw.files[i].data

RawPaths == {raw.files[i].path : i \in 1..Len(raw.files)}

\* The last raw line of a file that carries line number n.
LastWith(file, n) ==
    LET i == CHOOSE j \in 1..Len(file.lines) :
                 /\ file.lines[j].lineno = n
                 /\ \A k \in (j + 1)..Len(file.lines) : file.lines[k].lineno # n
    IN  file.lines[i]

LineNumbersOf(file) == {file.lines[i].lineno : i \in 1..Len(file.lines)}

\* Every normalized line of the output, as a <<path, line number>> pair.
OutLines == {<<p, n>> \in Paths \X {1, 2, 10} :
                p \in DOMAIN out.files /\ n \in DOMAIN out.files[p].lines}

OutLine(pn) == out.files[pn[1]].lines[pn[2]]

\* The decimal spelling of the line numbers the raw reports use.
Decimal(n) == CASE n = 1 -> "1" [] n = 2 -> "2" [] n = 10 -> "10"

\* Each term of the leak score, as the scoring rule words it.
WeightTerm(line, leaks) ==
    IF leaks.t = "object" /\ Decimal(line.lineno) \in DOMAIN leaks.props
    THEN leaks.props[Decimal(line.lineno)].n ELSE 0

Grows(line) == Present(line.n_growth_mb) /\ line.n_growth_mb.n > 0

GrowthTerm(line) == IF Grows(line) THEN line.n_growth_mb.n * 10 ELSE 0

MallocTerm(line) ==
    IF Present(line.n_malloc_mb) /\ line.n_malloc_mb.n > 0 /\ Grows(line)
    THEN line.n_malloc_mb.n * 5 ELSE 0

UsageTerm(line) ==
    IF Present(line.n_usage_fraction) /\ line.n_usage_fraction.n < 3 /\ Grows(line)
    THEN 20 ELSE 0

ScoreByRule(line, leaks) ==
    WeightTerm(line, leaks) + GrowthTerm(line) + MallocTerm(line) + UsageTerm(line)

\* The sum of a field over a set of output lines, absent fields adding nothing.
Field(line, f) ==
    CASE f = "growth" -> line.n_growth_mb
      [] f = "python" -> line.n_cpu_percent_python
      [] f = "native" -> line.n_cpu_percent_c
      [] f = "system" -> line.n_sys_percent

RECURSIVE SumOf(_, _)
SumOf(f, S) ==
    IF S = {} THEN 0
    ELSE LET pn == CHOOSE x \in S : TRUE
             v == Field(OutLine(pn), f)
         IN  (IF Present(v) THEN v.n ELSE 0) + SumOf(f, S \ {pn})

(***************************************************************************)
(* C1.  The leak score of every normalized line is the sum of exactly four *)
(* terms computed from the raw line it was made from: the weight stored in *)
(* the file's leaks map under the decimal string of the line's own number  *)
(* (entries under other keys add nothing), growthMb * 10 if growthMb > 0,  *)
(* mallocMb * 5 if mallocMb > 0 and growthMb > 0, and 20 if usageFraction  *)
(* is below 0.3 and growthMb > 0.                                          *)
(***************************************************************************)
C1_LeakScoreIsSumOfTerms ==
    Done =>
        \A pn \in OutLines :
            LET file == RawFileAt(pn[1])
            IN  OutLine(pn).leak_score = Num(ScoreByRule(LastWith(file, pn[2]), file.leaks))

\* Line 10 with growth 5, malloc 2, usage 0.1 under a leaks map holding
\* "1" and "10": the score is 30 + 50 + 10 + 20.
C1_Witness ==
    /\ Done
    /\ Len(raw.files) = 1
    /\ raw.files[1].data.leaks = Obj([k \in {"1", "10"} |-> IF k = "1" THEN Num(1) ELSE Num(30)])
    /\ raw.files[1].data.lines =
         <<[BareLine(10) EXCEPT !.n_growth_mb = Num(5), !.n_malloc_mb = Num(2),
                                !.n_usage_fraction = Num(1)]>>
    /\ out.files["a.py"].lines[10].leak_score = Num(110)

(***************************************************************************)
(* C2.  Every normalized line of every file of a normalized report has a   *)
(* leak score >= 0, whatever the weights of the leaks map and the signs of *)
(* growthMb and mallocMb.                                                  *)
(***************************************************************************)
C2_LeakScoreNonNegative ==
    Done => \A pn \in OutLines : OutLine(pn).leak_score.n >= 0

(***************************************************************************)
(* C3.  The Report Normalizer returns a normalized report and raises       *)
(* nothing, whether the optional fields of the raw report are present,     *)
(* absent, null or of the wrong type, and also when there is no file.      *)
(***************************************************************************)
C3_NormalizerIsTotal ==
    /\ pc # "threw"
    /\ pc # "ready" => out # Undefined /\ DOMAIN out.files \subseteq Paths

\* A report whose args, leaks map and sample lists are all null was normalized.
C3_Witness ==
    /\ Done
    /\ raw.args = Null
    /\ Len(raw.files) = 1
    /\ raw.files[1].data.leaks = Null
    /\ raw.files[1].data.lines[1].cpu_samples_list = Null
    /\ raw.files[1].data.lines[1].memory_samples = Null
    /\ out.files["a.py"].lines[1].cpu_samples_count = Num(0)

(***************************************************************************)
(* C4.  The Leak Classifier answers true exactly when the leak score       *)
(* (0 when absent) is strictly greater than the threshold (50 when none is *)
(* given); the answer is a function of these two inputs alone.             *)
(***************************************************************************)
C4_ClassifierIsStrict ==
    verdict # NoVerdict =>
        LET score == IF verdict.leak_score = Undefined THEN 0 ELSE verdict.leak_score.n
            limit == IF verdict.threshold = Undefined THEN 50 ELSE verdict.threshold.n
        IN  verdict.result = (score > limit)

\* A line whose score is exactly the default threshold was classified: no leak.
C4_Witness ==
    /\ verdict # NoVerdict
    /\ verdict.leak_score = Num(50)
    /\ verdict.threshold = Undefined
    /\ verdict.result = FALSE

(***************************************************************************)
(* C5.  growthRatePercent is (totalMemoryGrowthMb / maxMemoryMb) * 100     *)
(* when maxMemoryMb > 0 and exactly 0 otherwise; when no line has a        *)
(* non-zero peakMb it is 0 whatever the growth values are, and it is never *)
(* the result of a division by zero.                                       *)
(***************************************************************************)
IsZero(q) == q.den # 0 /\ q.num = 0

C5_GrowthRate ==
    Done =>
        LET rate == out.growth_rate
        IN  /\ rate.den # 0
            /\ out.max_memory_mb > 0 =>
                 rate.num * out.max_memory_mb
                    = out.total_memory_growth_mb * 100 * rate.den
            /\ out.max_memory_mb <= 0 => IsZero(rate)
            /\ (\A i \in 1..Len(raw.files) :
                  \A j \in 1..Len(raw.files[i].data.lines) :
                     LET peak == raw.files[i].data.lines[j].n_peak_mb
                     IN  ~Present(peak) \/ peak.n = 0)
                 => IsZero(rate)

\* No line has a peak, the total growth is not zero, and the rate is 0.
C5_Witness ==
    /\ Done
    /\ out.max_memory_mb = 0
    /\ out.total_memory_growth_mb # 0
    /\ IsZero(out.growth_rate)

(***************************************************************************)
(* C6.  maxMemoryMb is the running maximum, from 0, of peakMb over the     *)
(* normalized lines of all files: no line's peakMb exceeds it, it is 0 or  *)
(* the peakMb of some line, and two files whose single lines peak at 100   *)
(* and 200 give 200.                                                       *)
(***************************************************************************)
OutPeaks == {OutLine(pn).n_peak_mb.n : pn \in {x \in OutLines : Present(OutLine(x).n_peak_mb)}}

SingleLinePeaks(a, b) ==
    /\ Len(raw.files) = 2
    /\ Len(raw.files[1].data.lines) = 1
    /\ Len(raw.files[2].data.lines) = 1
    /\ raw.files[1].data.lines[1].n_peak_mb = Num(a)
    /\ raw.files[2].data.lines[1].n_peak_mb = Num(b)

C6_MaxMemoryIsRunningMax ==
    Done =>
        /\ \A v \in OutPeaks : out.max_memory_mb >= v
        /\ out.max_memory_mb \in OutPeaks \cup {0}
        /\ SingleLinePeaks(100, 200) \/ SingleLinePeaks(200, 100) => out.max_memory_mb = 200

\* The file with the 200 MB line came first, the one with 100 MB second.
C6_Witness == Done /\ SingleLinePeaks(200, 100) /\ out.max_memory_mb = 200

(***************************************************************************)
(* C7.  Each sum aggregate is the plain sum of its field over the          *)
(* normalized lines of the output: growthMb with its sign (the total may   *)
(* be negative), and the python, native and system CPU fractions.          *)
(***************************************************************************)
C7_TotalsArePlainSums ==
    Done =>
        /\ out.total_memory_growth_mb = SumOf("growth", OutLines)
        /\ out.total_cpu_percent_python = SumOf("python", OutLines)
        /\ out.total_cpu_percent_c = SumOf("native", OutLines)
        /\ out.total_sys_percent = SumOf("system", OutLines)

\* Lines that grow and lines that shrink were summed: 5 - 2 - 2 - 2 = -1.
C7_Witness ==
    /\ Done
    /\ Cardinality(OutLines) = 4
    /\ out.total_memory_growth_mb = -1
    /\ out.total_cpu_percent_python = 6
    /\ out.total_cpu_percent_c = 2
    /\ out.total_sys_percent = 1

(***************************************************************************)
(* Reorderings of the raw report                                           *)
(***************************************************************************)
Aggregates(report) ==
    <<report.max_memory_mb, report.total_memory_growth_mb, report.growth_rate,
      report.total_cpu_percent_python, report.total_cpu_percent_c,
      report.total_sys_percent>>

Reorder(seq, f) == [i \in 1..Len(seq) |-> seq[f[i]]]

NoRepeatedLine(file) == Cardinality(LineNumbersOf(file)) = Len(file.lines)

\* The raw reports that hold the files of raw in any order; the lines of a
\* file are in any order too, but stay as they are in a file that repeats a
\* line number when distinctOnly holds.
Reorderings(distinctOnly) ==
    LET files == raw.files
        Orders(n) == Permutations(1..n)
    IN  {[raw EXCEPT !.files =
            [i \in 1..Len(files) |->
                [files[fo[i]] EXCEPT !.data.lines = Reorder(@, lo[fo[i]])]]] :
            fo \in Orders(Len(files)),
            lo \in {c \in [1..Len(files) -> UNION {Orders(k) : k \in 0..MaxLines}] :
                      \A i \in 1..Len(files) :
                         /\ DOMAIN c[i] = 1..Len(files[i].data.lines)
                         /\ distinctOnly /\ ~NoRepeatedLine(files[i].data) =>
                              \A k \in DOMAIN c[i] : c[i][k] = k}}

(***************************************************************************)
(* C8.  Aggregation is order-independent: whatever the order in which the  *)
(* files are iterated and whatever the order of the entries of any file's  *)
(* lines sequence, the six aggregates (maxMemoryMb, totalMemoryGrowthMb,   *)
(* growthRatePercent and the three CPU totals) are the same.               *)
(***************************************************************************)
C8_AnyOrderSameAggregates ==
    Done =>
        \A r \in Reorderings(FALSE) :
            Aggregates(parseScaleneProfile(r)) = Aggregates(out)

(***************************************************************************)
(* C8, as amended.  Whatever the order of the files, and of the lines of   *)
(* any file in which no line number occurs twice, the six aggregates are   *)
(* the same.                                                               *)
(***************************************************************************)
C8_OrderOfFilesAndDistinctLines ==
    Done =>
        \A r \in Reorderings(TRUE) :
            Aggregates(parseScaleneProfile(r)) = Aggregates(out)

\* Two files, the first with two different lines of different numbers.
C8_Witness ==
    /\ Done
    /\ Len(raw.files) = 2
    /\ raw.files[1].data.lines = <<Hot(1), Cool(2)>>
    /\ raw.files[2].data.lines = <<Cool(1)>>
    /\ out.max_memory_mb = 200
    /\ out.total_memory_growth_mb = 1

(***************************************************************************)
(* C9.  The line lookup of a normalized file has exactly one entry per     *)
(* line number of the raw lines, and the entry for a number is the         *)
(* normalization of the last raw line that carries it: its metrics and its *)
(* leak score, not those of an earlier line of the same number.            *)
(***************************************************************************)
SameMetrics(lineData, line) ==
    /\ lineData.lineno = line.lineno
    /\ lineData.code = line.line
    /\ lineData.n_growth_mb = line.n_growth_mb
    /\ lineData.n_malloc_mb = line.n_malloc_mb
    /\ lineData.n_peak_mb = line.n_peak_mb
    /\ lineData.n_usage_fraction = line.n_usage_fraction
    /\ lineData.n_cpu_percent_python = line.n_cpu_percent_python
    /\ lineData.n_cpu_percent_c = line.n_cpu_percent_c
    /\ lineData.n_sys_percent = line.n_sys_percent

C9_LastWriteWins ==
    Done =>
        \A p \in RawPaths :
            /\ DOMAIN out.files[p].lines = LineNumbersOf(RawFileAt(p))
            /\ \A n \in LineNumbersOf(RawFileAt(p)) :
                 LET last == LastWith(RawFileAt(p), n)
                 IN  /\ SameMetrics(out.files[p].lines[n], last)
                     /\ out.files[p].lines[n].leak_score
                          = Num(ScoreByRule(last, RawFileAt(p).leaks))

\* Line 1 occurs twice: the entry is the second occurrence, score 0 and not 80.
C9_Witness ==
    /\ Done
    /\ Len(raw.files) = 1
    /\ raw.files[1].data.lines = <<Hot(1), Cool(1)>>
    /\ DOMAIN out.files["a.py"].lines = {1}
    /\ out.files["a.py"].lines[1].n_growth_mb = Num(-2)
    /\ out.files["a.py"].lines[1].leak_score = Num(0)

Carried(x) == x # Undefined

\* The raw functions of a file that carry both a name and a lineno.
WithNameAndLineno(file) ==
    {i \in 1..Len(file.functions) :
        Carried(file.functions[i].name) /\ Carried(file.functions[i].lineno)}

C11_DroppedOnlyWhenAbsent ==
    Done =>
        \A p \in RawPaths :
            Len(out.files[p].functions) = Cardinality(WithNameAndLineno(RawFileAt(p)))

(***************************************************************************)
(* C12.  The normalized functions of a file are a subsequence of its raw   *)
(* functions in the raw order, and each of them has the name, the lineno   *)
(* and every metric of the raw function it comes from, an absent metric    *)
(* staying absent.                                                         *)
(***************************************************************************)
FunctionFields ==
    {"name", "lineno", "n_cpu_percent_python", "n_cpu_percent_c", "n_sys_percent",
     "n_malloc_mb", "n_peak_mb", "n_growth_mb", "n_copy_mb_s"}

\* The strictly increasing maps of the indices 1..m into 1..n.
Embeddings(m, n) ==
    {f \in [1..m -> 1..n] : \A i, j \in 1..m : i < j => f[i] < f[j]}

SameFunction(fnData, fn) ==
    /\ DOMAIN fnData = FunctionFields
    /\ \A k \in FunctionFields : fnData[k] = fn[k]

C12_FunctionsAreSubsequence ==
    Done =>
        \A p \in RawPaths :
            LET fns == out.files[p].functions
                rawFns == RawFileAt(p).functions
            IN  \E f \in Embeddings(Len(fns), Len(rawFns)) :
                    \A i \in 1..Len(fns) : SameFunction(fns[i], rawFns[f[i]])

\* Two functions are kept in the raw order, the first with a growth
\* and the second without one.
C12_Witness ==
    /\ Done
    /\ Len(raw.files) = 1
    /\ Len(raw.files[1].data.functions) = 2
    /\ Len(out.files["a.py"].functions) = 2
    /\ out.files["a.py"].functions[1].n_growth_mb = Num(4)
    /\ out.files["a.py"].functions[2].n_growth_mb = Undefined
    /\ out.files["a.py"].functions[2].name = Str("f")

(***************************************************************************)
(* C13.  As the claim words it: a normalized line carries the line number, *)
(* every CPU, memory and GPU metric and the region markers of its raw line *)
(* unchanged; code is the raw line text, the two sample counts are the     *)
(* lengths of the raw sample lists (0 without a list), and leak_score is   *)
(* added.                                                                  *)
(***************************************************************************)
SampleCount(list) == IF list = Undefined THEN Num(0) ELSE Num(Len(list.items))

\* The differences between a raw line and its normalized line.
DerivedFieldsOf(lineData, line, leaks) ==
    /\ lineData.code = line.line
    /\ lineData.cpu_samples_count = SampleCount(line.cpu_samples_list)
    /\ lineData.memory_samples_count = SampleCount(line.memory_samples)
    /\ lineData.leak_score = Num(ScoreByRule(line, leaks))

\* Reading a property of an object: undefined when the object has no such key.
Read(object, key) == IF key \in DOMAIN object THEN object[key] ELSE Undefined

CarriesUnchanged(lineData, line, fields) ==
    /\ lineData.lineno = line.lineno
    /\ \A f \in fields : Read(lineData, f) = line[f]

C13_AllRawFieldsCarried ==
    Done =>
        \A pn \in OutLines :
            LET file == RawFileAt(pn[1])
                line == LastWith(file, pn[2])
            IN  /\ CarriesUnchanged(OutLine(pn), line, MetricFields \cup RegionFields)
                /\ DerivedFieldsOf(OutLine(pn), line, file.leaks)

(***************************************************************************)
(* C13, amended.  A normalized line carries the line number and every CPU, *)
(* memory and GPU metric of its raw line unchanged, an absent one staying  *)
(* absent and 0 staying 0; it has no region marker; its other fields are   *)
(* code, the two sample counts and leak_score, as above.                   *)
(***************************************************************************)
C13_MetricsCarriedRegionsDropped ==
    Done =>
        \A pn \in OutLines :
            LET file == RawFileAt(pn[1])
                line == LastWith(file, pn[2])
            IN  /\ CarriesUnchanged(OutLine(pn), line, MetricFields)
                /\ DerivedFieldsOf(OutLine(pn), line, file.leaks)
                /\ DOMAIN OutLine(pn) =
                        MetricFields \cup {"lineno", "code", "cpu_samples_count",
                                           "memory_samples_count", "leak_score"}

\* The line with every optional field and both sample lists: the metrics are
\* kept (0 as 0), the lists are counted, the region markers are gone.
C13_Witness ==
    /\ Done
    /\ Len(raw.files) = 1
    /\ raw.files[1].data.lines =
            <<[FullLine EXCEPT !.cpu_samples_list = Arr(<<Num(1), Num(2)>>),
                               !.memory_samples = Arr(<<>>)]>>
    /\ out.files["a.py"].lines[2].n_gpu_percent = Num(0)
    /\ out.files["a.py"].lines[2].n_gpu_peak_memory_mb = Num(7)
    /\ out.files["a.py"].lines[2].cpu_samples_count = Num(2)
    /\ out.files["a.py"].lines[2].memory_samples_count = Num(0)
    /\ "start_region_line" \notin DOMAIN out.files["a.py"].lines[2]

(***************************************************************************)
(* C14.  As the claim words it: program is the first element of args when  *)
(* args is present and that element is non-empty, otherwise the filename   *)
(* when one is present, otherwise "Unknown"; it is a non-empty string.     *)
(***************************************************************************)
NonEmptyString(x) == x.t = "string" /\ x.s # ""

HasFirstArg ==
    /\ raw.args # Undefined
    /\ Len(raw.args.items) > 0
    /\ NonEmptyString(raw.args.items[1])

C14_ProgramFromPresentFilename ==
    Done =>
        /\ out.program =
                IF HasFirstArg THEN raw.args.items[1]
                ELSE IF raw.filename # Undefined THEN raw.filename
                ELSE Str("Unknown")
        /\ NonEmptyString(out.program)

(***************************************************************************)
(* C14, amended.  program is the first element of args when args is        *)
(* present and that element is non-empty, otherwise the filename when one  *)
(* is present and non-empty, otherwise "Unknown"; it is a non-empty        *)
(* string.                                                                 *)
(***************************************************************************)
C14_ProgramFromNonEmptyFilename ==
    Done =>
        /\ out.program =
                IF HasFirstArg THEN raw.args.items[1]
                ELSE IF NonEmptyString(raw.filename) THEN raw.filename
                ELSE Str("Unknown")
        /\ NonEmptyString(out.program)

\* An empty first argument gives way to the filename.
C14_Witness ==
    /\ Done
    /\ raw.args = Arr(<<Str("")>>)
    /\ raw.filename = Str("main.py")
    /\ out.program = Str("main.py")

(***************************************************************************)
(* C15.  alloc_samples and free_samples are 0 when the raw report has none *)
(* and the raw value otherwise; args is the empty sequence when absent and *)
(* entrypoint_dir the empty string when absent; the leaks map of each      *)
(* normalized file has the entries of the raw file's map, and is empty     *)
(* when the raw file has none.                                             *)
(***************************************************************************)
OrDefault(x, default) == IF x = Undefined THEN default ELSE x

C15_AbsentFieldsDefaulted ==
    Done =>
        /\ out.alloc_samples = OrDefault(raw.alloc_samples, Num(0))
        /\ out.free_samples = OrDefault(raw.free_samples, Num(0))
        /\ out.args = OrDefault(raw.args, Arr(<<>>))
        /\ out.entrypoint_dir = OrDefault(raw.entrypoint_dir, Str(""))
        /\ \A p \in RawPaths :
                out.files[p].leaks = OrDefault(RawFileAt(p).leaks, Obj(EmptyProps))

\* A report without header fields whose file has a leaks map: the header
\* fields take their defaults and the map keeps its entry.
C15_Witness ==
    /\ Done
    /\ raw.args = Undefined /\ out.args = Arr(<<>>)
    /\ raw.alloc_samples = Undefined /\ out.alloc_samples = Num(0)
    /\ raw.entrypoint_dir = Undefined /\ out.entrypoint_dir = Str("")
    /\ Len(raw.files) = 1
    /\ raw.files[1].data.leaks # Undefined
    /\ DOMAIN raw.files[1].data.leaks.props # {}
    /\ out.files["a.py"].leaks = raw.files[1].data.leaks

(***************************************************************************)
(* C16.  Of two raw lines under the same leaks map that are alike in every *)
(* field but growth, both growths being positive, the line with the larger *)
(* growth has a leak score at least as large as the other's.               *)
(***************************************************************************)
RawLineOf(pn) == LastWith(RawFileAt(pn[1]), pn[2])

AlikeButGrowth(a, b) ==
    /\ RawFileAt(a[1]).leaks = RawFileAt(b[1]).leaks
    /\ [RawLineOf(a) EXCEPT !.n_growth_mb = Undefined]
            = [RawLineOf(b) EXCEPT !.n_growth_mb = Undefined]
    /\ Grows(RawLineOf(a)) /\ Grows(RawLineOf(b))

C16_ScoreMonotoneInGrowth ==
    Done =>
        \A a, b \in OutLines :
            AlikeButGrowth(a, b)
                /\ RawLineOf(a).n_growth_mb.n > RawLineOf(b).n_growth_mb.n
                => OutLine(a).leak_score.n >= OutLine(b).leak_score.n

\* Growth 5 against growth 3 with an allocation, a low usage fraction and a
\* weight of 30: scores 110 and 90.
C16_Witness ==
    /\ Done
    /\ raw \in PairedReports
    /\ raw.files[1].data.lines[1].n_growth_mb = Num(5)
    /\ raw.files[2].data.lines[1].n_growth_mb = Num(3)
    /\ AlikeButGrowth(<<"a.py", 1>>, <<"b.py", 1>>)
    /\ out.files["a.py"].lines[1].leak_score = Num(110)
    /\ out.files["b.py"].lines[1].leak_score = Num(90)

(***************************************************************************)
(* C17.  A call of the Report Normalizer leaves the raw report as it was,  *)
(* and a second call on the same raw report returns a report equal to the  *)
(* first.                                                                  *)
(***************************************************************************)
Returned == pc \in {"done", "again"}

C18_IndependentlyOwned ==
    [][pc' = "written" => (out' # out => raw' = raw) /\ (raw' # raw => out' = out)]_vars

(***************************************************************************)
(* C19.  View Last Profile reaches the normalizer and the viewer only with *)
(* a known path, an existing file and a content that was read and parsed;  *)
(* without a profile file it shows the "no profile found" warning, with a  *)
(* file it cannot read or parse the "failed to read" error, and in both    *)
(* cases the normalizer is not called and the viewer stays as it was.      *)
(***************************************************************************)
C19_ViewOnlyAfterSuccessfulRead ==
    [][view' # view \/ viewer' # viewer \/ out' # out =>
        /\ view'.outcome \in {"shown", "TypeError"} =>
                view'.path # NoPath /\ view'.exists /\ view'.kind = "json"
        /\ view'.path = NoPath \/ ~view'.exists => view'.outcome = NoProfileFound
        /\ view'.path # NoPath /\ view'.exists /\ view'.kind # "json" =>
                view'.outcome = FailedToRead
        /\ view'.outcome \in {NoProfileFound, FailedToRead} =>
                raw' = raw /\ out' = out /\ pc' = pc /\ viewer' = viewer
        /\ viewer' # viewer => view'.outcome = "shown" /\ viewer' = out'
    ]_vars

\* A profile is on show, and a later View Last Profile that finds a file
\* which is not JSON ends with the error and leaves it on show.
C19_Witness ==
    /\ view.outcome = FailedToRead
    /\ view.kind = "invalid"
    /\ view.path = "app-1.json"
    /\ pc = "done"
    /\ viewer = out
    /\ DOMAIN viewer.files = {"a.py"}

(***************************************************************************)
(* C20.  A run whose process was sent SIGTERM by stop() while it ran never *)
(* completes: the view-profile command is not executed for it, no          *)
(* completion notification is shown for it, and its promise does not       *)
(* resolve with a profile path.                                            *)
(***************************************************************************)
C20_StoppedRunNeverCompletes ==
    \A c \in Runs :
        runs[c].killed =>
            /\ ~runs[c].viewRequested
            /\ ~runs[c].notified
            /\ runs[c].promise # "path"

(***************************************************************************)
(* C21.  The memory-size formatter gives "-" for undefined and for 0,      *)
(* "<0.01 MB" below 0.01, the value with two decimals and " MB" below 1,   *)
(* the value with one decimal and " MB" below 1000, and otherwise the      *)
(* value divided by 1024 with two decimals and " GB"; 0.005, 0.5, 42.7 and *)
(* 2048 give "<0.01 MB", "0.50 MB", "42.7 MB" and "2.00 GB".               *)
(***************************************************************************)
Abs(i) == IF i < 0 THEN 0 - i ELSE i

\* n units of the last decimal, written with that many decimals.
Spell(n, digits) ==
    IF digits = 1 THEN String(n \div 10) \o "." \o Digit(n % 10)
    ELSE String(n \div 100) \o "." \o Digit((n \div 10) % 10) \o Digit(n % 10)

\* The decimal with the given number of decimals that is nearest to
\* x / per, x being counted in units of 1/Scale.
Rounded(x, per, digits) ==
    LET unit == per * (Scale \div Pow10(digits))
        n == CHOOSE k \in {x \div unit, x \div unit + 1} : 2 * Abs(k * unit - x) < unit
    IN  Spell(n, digits)

C21_MemoryFormatterCases ==
    fmt.memory # "" =>
        LET v == fmt.value
        IN  /\ fmt.memory =
                    IF v = Undefined \/ v.n = 0 THEN "-"
                    ELSE IF v.n < Scale \div 100 THEN "<0.01 MB"
                    ELSE IF v.n < Scale THEN Rounded(v.n, 1, 2) \o " MB"
                    ELSE IF v.n < 1000 * Scale THEN Rounded(v.n, 1, 1) \o " MB"
                    ELSE Rounded(v.n, 1024, 2) \o " GB"
            /\ v = Num(500) => fmt.memory = "<0.01 MB"
            /\ v = Num(50000) => fmt.memory = "0.50 MB"
            /\ v = Num(4270000) => fmt.memory = "42.7 MB"
            /\ v = Num(204800000) => fmt.memory = "2.00 GB"

\* 2048 has been spelled, in GB.
C21_Witness ==
    /\ fmt.value = Num(204800000)
    /\ fmt.memory = "2.00 GB"

(***************************************************************************)
(* C22.  The percentage formatter gives "-" for undefined and for 0,       *)
(* "<0.01%" below 0.01, and otherwise the value with two decimals and "%"; *)
(* 0.005 and 3.14159 give "<0.01%" and "3.14%".                            *)
(***************************************************************************)
C22_PercentFormatterCases ==
    fmt.percent # "" =>
        LET v == fmt.value
        IN  /\ fmt.percent =
                    IF v = Undefined \/ v.n = 0 THEN "-"
                    ELSE IF v.n < Scale \div 100 THEN "<0.01%"
                    ELSE Rounded(v.n, 1, 2) \o "%"
            /\ v = Num(500) => fmt.percent = "<0.01%"
            /\ v = Num(314159) => fmt.percent = "3.14%"

\* 3.14159 has been spelled.
C22_Witness ==
    /\ fmt.value = Num(314159)
    /\ fmt.percent = "3.14%"

(***************************************************************************)
(* C23.  stop() called while the runner tracks a process sends SIGTERM to  *)
(* that process, and right after it isRunning() is false and the status    *)
(* bar is idle, with the profile command; the Stop Profiling command       *)
(* without a tracked process changes nothing.                              *)
(***************************************************************************)
\* SIGTERM is sent to the child of call c in this step.
Signalled(c) == ~runs[c].killed /\ runs'[c].killed

C23_StopStopsTrackedProcess ==
    [][/\ \A c \in Runs :
            Signalled(c) => c = process /\ ~isRunning' /\ statusBar' = "idle"
       /\ Stop /\ isRunning =>
            /\ Signalled(process) /\ ~isRunning' /\ statusBar' = "idle"
            /\ \A c \in Runs \ {process} : runs'[c] = runs[c]
       /\ Stop /\ ~isRunning => UNCHANGED vars
    ]_vars

\* The process of the first call was stopped and has not closed yet.
C23_Witness ==
    /\ runs[1].killed
    /\ runs[1].child = "alive"
    /\ ~isRunning
    /\ statusBar = "idle"

(***************************************************************************)
(* C24.  Single session: at any time at most one child spawned by the      *)
(* runner is alive and not stopped, and every such child is the process    *)
(* the runner tracks, so that stop() reaches it.                           *)
(***************************************************************************)
\* The calls whose child runs and was not sent SIGTERM.
Running == {c \in Runs : runs[c].child = "alive" /\ ~runs[c].killed}

C24_SingleSession ==
    /\ Cardinality(Running) <= 1
    /\ \A c \in Running : process = c

(***************************************************************************)
(* C25.  isRunning() is true, and the status bar shows the running state,  *)
(* whenever a child spawned by run() has not closed and was not stopped: a *)
(* late 'close' or 'error' event of an earlier child does not clear them.  *)
(***************************************************************************)
C25_RunningWhileChildRuns ==
    Running # {} => isRunning /\ statusBar = "running"

(***************************************************************************)
(* C26.  lastProfilePath changes only to the output path of a run that     *)
(* closed with code 0, or through setLastProfilePath: a run that exits     *)
(* with another code, fails to spawn or is stopped leaves it as it was.    *)
(***************************************************************************)
\* The calls whose child closed with code 0.
Completed == {c \in Runs : runs[c].child = "closed" /\ runs[c].notified}

C26_LastPathOfCompletedRun ==
    [][lastProfilePath' # lastProfilePath =>
            \E c \in Runs : c \in Completed' /\ lastProfilePath' = generateProfilePath(c)]_vars

(***************************************************************************)
(* C27.  A run() that is answered anything but 'Yes' at the 'Stop it?'     *)
(* prompt returns null and leaves the running process, lastProfilePath and *)
(* the status bar as they are and spawns nothing; a run() that returns     *)
(* null because Scalene is missing and the user cancels, or because the    *)
(* installation fails, spawns nothing and leaves lastProfilePath alone.    *)
(***************************************************************************)
\* Call c takes a step of run().
Advances(c) == runs'[c].pc # runs[c].pc

\* No child is spawned in the step.
NothingSpawned == \A b \in Runs : runs'[b].child = "alive" => runs[b].child = "alive"

C27_ReturningNullChangesNothing ==
    [][\A c \in Runs :
        /\ Advances(c) /\ runs[c].pc = "askStop" /\ runs'[c].promise = "null" =>
                /\ UNCHANGED <<process, lastProfilePath, statusBar>>
                /\ \A b \in Runs \ {c} : runs'[b] = runs[b]
        /\ Advances(c) /\ runs'[c].pc # "spawned" =>
                /\ lastProfilePath' = lastProfilePath
                /\ NothingSpawned
        /\ runs'[c].promise = "null" =>
                /\ runs'[c].pc = "returned"
                /\ runs'[c].child = NotCalled.child
      ]_vars

\* The second call was declined at the prompt while the first call's child
\* runs on, tracked and shown as running.
C27_Witness ==
    /\ runs[2].promise = "null"
    /\ runs[1].child = "alive" /\ ~runs[1].killed
    /\ process = 1
    /\ statusBar = "running"
    /\ lastProfilePath = generateProfilePath(1)

(***************************************************************************)
(* C28.  Every call of installScalene settles with a boolean once each     *)
(* installer it spawned has exited or failed to start: true exactly when   *)
(* an installer exited with code 0; uv is tried first exactly when uv is   *)
(* available and pyproject.toml exists; after a failed uv attempt the pip  *)
(* fallback is started exactly once.                                       *)
(***************************************************************************)
Over(proc) == proc.state \in {"failed", "closed"}

\* Every installer the call spawned has exited or failed to start, and none
\* is still to be spawned.
InstallersOver ==
    /\ install.pc = "installing"
    /\ install.uv.state # "none" => Over(install.uv)
    /\ \A k \in DOMAIN install.pips : Over(install.pips[k])

ExitedWithZero(proc) == proc.state = "closed" /\ proc.code = Num(0)

SomeInstallerSucceeded ==
    \/ ExitedWithZero(install.uv)
    \/ \E k \in DOMAIN install.pips : ExitedWithZero(install.pips[k])

UvFailed ==
    \/ install.uv.state \in {"erred", "failed"}
    \/ install.uv.state = "closed" /\ install.uv.code # Num(0)

SettlesWhenInstallersOver == InstallersOver => install.result # "pending"

TrueOnlyAfterSuccess == install.result = "true" => SomeInstallerSucceeded

TrueAfterSuccess == InstallersOver /\ SomeInstallerSucceeded => install.result = "true"

UvFirstWhenAvailable ==
    install.pc = "installing" =>
        /\ install.uv.state # "none" <=> install.hasUv /\ install.hasPyproject
        /\ install.uv.state = "none" => Len(install.pips) = 1
        /\ install.uv.state = "alive" => Len(install.pips) = 0

OneFallback ==
    /\ UvFailed => Len(install.pips) = 1
    /\ ExitedWithZero(install.uv) => Len(install.pips) = 0

C28_InstallSettlesWithOutcome ==
    /\ SettlesWhenInstallersOver
    /\ TrueOnlyAfterSuccess
    /\ TrueAfterSuccess
    /\ UvFirstWhenAvailable
    /\ OneFallback

(***************************************************************************)
(* C29.  The temporary selection file of Profile Selected Code is unlinked *)
(* in every outcome of run() (a path, null, or a rejection), is not        *)
(* unlinked while the Scalene process spawned for it runs, and an unlink   *)
(* that fails raises no error: the command ends as run() ended.            *)
(***************************************************************************)
Settled(run) == run.promise \in {"path", "null", "rejected"}

C29_TempFileCleanedUp ==
    \A c \in Runs :
        runs[c].region # "none" =>
            /\ Settled(runs[c]) <=> runs[c].temp \in {"deleted", "kept"}
            /\ runs[c].temp \in {"deleted", "kept"} => runs[c].child # "alive"
            /\ runs[c].region = "rejected" <=> runs[c].promise = "rejected"
            /\ runs[c].region = "resolved" <=> runs[c].promise \in {"path", "null"}

\* One selection was profiled to the end and its file unlinked; for another
\* run() returned null and the unlink failed.
C29_Witness ==
    /\ runs[1].region = "resolved" /\ runs[1].promise = "path" /\ runs[1].temp = "deleted"
    /\ runs[2].region = "resolved" /\ runs[2].promise = "null" /\ runs[2].temp = "kept"

(***************************************************************************)
(* C30.  Every line listed in the Potential Leaks tab is also listed in    *)
(* the Line Profile tab, under the same file, and is marked there as a     *)
(* leak line.                                                              *)
(***************************************************************************)
C30_LeaksAreListedLines ==
    pc = "rendered" =>
        \A leak \in tabs.leakProfile :
            \E row \in tabs.lineProfile :
                /\ row.file = leak.file
                /\ row.lineno = leak.lineno
                /\ row.leakLine

====
